---- MODULE Spec2Model ----
(***************************************************************************)
(* A model of the PFS metadata and commit engine of                        *)
(* src/src/server/pfs/server/driver.go: repos with provenance and          *)
(* refcounts, commits, branches, the openCommits index, the scratch space, *)
(* and the SubscribeCommit stream.  Every etcd transaction (STM closure or *)
(* single etcd call) is one atomic step; a handler made of several such    *)
(* calls is a sequence of steps of one entry of `calls`.                   *)
(***************************************************************************)
EXTENDS Integers, Sequences, FiniteSets, Bags, TLC

\* ----------------------------------------------------------------- bounds
RepoNames == {"a", "b", "c"}
ManagedRepos == {"a", "b"}
CommitRepo == "a"
BranchNames == {"master"}
FilePaths == {"/x"}
MaxRef == 2
MaxRepoCommits == 1
MaxCommits == 3
MaxScratch == 2
MaxCalls == 2
SeqCalls == 1

NoCommit == 0

VARIABLES
  repos,          \* repos collection: name -> [prov, size]
  repoRefCounts,  \* repoRefCounts collection: name -> integer
  commits,        \* commits collections: commit ID -> CommitInfo (with its repo)
  branches,       \* branches collections: <<repo, branch>> -> head commit ID
  openCommits,    \* openCommits collection: set of commit IDs
  scratch,        \* scratch keys in mod-revision order
  nextID,         \* the next fresh commit UUID
  calls,          \* the handlers in flight: slot -> locals and position
  last,           \* the handler call that returned last, with its error
  finishOK,       \* commits for which finishCommit has returned nil
  db,             \* the database-backed driver's database: its tables and their rows
  treeCache,      \* treeCache: commit ID -> the tree the cache holds for it
  sub,            \* the subscribeCommit goroutine: position and locals
  branchWatch,    \* events pending on newCommitWatcher
  commitWatch,    \* events pending on commitInfoWatcher
  done,           \* the stream's done channel is closed
  delivered,      \* the CommitInfos sent on the stream, in order
  flush           \* the flushCommit stream: its goroutines, watchers and output

store == <<repos, repoRefCounts, commits, branches, openCommits, scratch>>
subVars == <<sub, branchWatch, commitWatch, done, delivered, flush>>
vars == <<repos, repoRefCounts, commits, branches, openCommits, scratch,
          nextID, calls, last, finishOK, db, treeCache, sub, branchWatch, commitWatch, done,
          delivered, flush>>

\* ------------------------------------------------------------ collections
\* col.Collection Put / Create
colPut(c, k, v) == [x \in DOMAIN c \cup {k} |-> IF x = k THEN v ELSE c[x]]
\* col.Collection Delete
colDelete(c, k) == [x \in DOMAIN c \ {k} |-> c[x]]
\* col.Collection DeleteAll on the keys ks
colDeleteAll(c, ks) == [x \in DOMAIN c \ ks |-> c[x]]

RECURSIVE SumOver(_, _)
SumOver(f, S) ==
  IF S = {} THEN 0
  ELSE LET x == CHOOSE y \in S : TRUE IN f[x] + SumOver(f, S \ {x})

\* A free slot of `calls`, and the subscription before subscribeCommit
Idle == [op |-> "idle"]
SubIdle == [pc |-> "idle", repo |-> "", branch |-> "", from |-> NoCommit,
            seen |-> {}, pending |-> <<>>, commit |-> NoCommit,
            cursor |-> NoCommit, listed |-> <<>>]

\* The record left by a handler that has returned
Returned(op, err) == [op |-> op, err |-> err]

\* ----------------------------------------------------------- transactions
\* col.NewSTM runs its closure and commits the writes of the closure if no
\* key the closure has read through the STM has been written since; else it
\* runs the closure again.  A transaction whose closure reads and writes
\* through the STM only is one atomic step.  A transaction whose closure also
\* reads outside the STM is a sequence of steps of one entry of `calls`, which
\* holds the keys read (`reads`) and whether one of them has been written
\* since (`dirty`).

\* The keys of the collections
repoKey(r) == <<"repos", r>>
refCountKey(r) == <<"repoRefCounts", r>>
commitKey(id) == <<"commits", id>>
branchKey(repo, b) == <<"branches", repo, b>>

\* The handlers in flight cs after a committed write of the keys W
stmWritten(W, cs) ==
  [i \in DOMAIN cs |->
     IF cs[i].op \in {"updateRepo", "makeCommit"} /\ cs[i].reads \cap W # {}
       THEN [cs[i] EXCEPT !.dirty = TRUE]
       ELSE cs[i]]

\* The lowest free slot takes the next handler call
FreeSlot(i) ==
  /\ calls[i].op = "idle"
  /\ \A j \in 1..MaxCalls : j < i => calls[j].op # "idle"

\* ------------------------------------------------------------------ repos
\* RepoInfo.Provenance is a list of repos; it is a bag of repo names here,
\* the order of the list left out.  The names of the Provenance of a RepoInfo:
provenanceOf(info) == BagToSet(info.prov)

\* createRepo: "the provenance of my provenance is my provenance"
fullProv(provenance) ==
  provenance \cup UNION {provenanceOf(repos[p]) : p \in provenance \cap DOMAIN repos}

\* The error the createRepo transaction ends with ("" for nil)
createRepoErr(repo, provenance) ==
  IF repo \in DOMAIN repos THEN "already exists"
  ELSE IF \E p \in provenance : p \notin DOMAIN repos THEN "not found"
  ELSE IF \E p \in fullProv(provenance) : p \notin DOMAIN repoRefCounts
    THEN "not found"
  ELSE IF repo \in DOMAIN repoRefCounts THEN "already exists"
  ELSE ""

\* createRepo: fullProv is a map, so that the Provenance it stores holds
\* every name once
createRepo(repo, provenance) ==
  LET err == createRepoErr(repo, provenance)
      fp == fullProv(provenance)
  IN /\ IF err = ""
          THEN /\ repoRefCounts' =
                    [r \in DOMAIN repoRefCounts \cup {repo} |->
                       IF r = repo THEN 0
                       ELSE IF r \in fp THEN repoRefCounts[r] + 1
                       ELSE repoRefCounts[r]]
               /\ repos' = colPut(repos, repo,
                                  [prov |-> SetToBag(fp), size |-> 0])
               /\ calls' = stmWritten({repoKey(repo), refCountKey(repo)}
                                        \cup {refCountKey(p) : p \in fp},
                                      calls)
          ELSE UNCHANGED <<repos, repoRefCounts, calls>>
     /\ last' = Returned("createRepo", err)
     /\ UNCHANGED <<commits, branches, openCommits, scratch, nextID,
                    finishOK, db, treeCache, subVars>>

\* listRepo's loop over repos.List(): the repos that have all of `provenance`
\* in their Provenance
listRepo(provenance) ==
  {r \in DOMAIN repos : provenance \subseteq provenanceOf(repos[r])}

\* provToAdd and provToRemove: the names of `provenance` the repo does not
\* have, and the names it has that `provenance` does not hold
provToAdd(info, provenance) == BagToSet(provenance) \ provenanceOf(info)
provToRemove(info, provenance) == provenanceOf(info) \ BagToSet(provenance)

\* The error the closure of updateRepo returns before listRepo ("" for nil)
updateRepoErr(repo, provenance) ==
  IF repo \notin DOMAIN repos THEN "not found"
  ELSE IF repo \notin DOMAIN repoRefCounts THEN "not found"
  ELSE IF \E p \in provToAdd(repos[repo], provenance)
                     \cup provToRemove(repos[repo], provenance) :
            p \notin DOMAIN repoRefCounts
    THEN "not found"
  ELSE ""

\* The keys the closure of updateRepo reads through the STM
updateRepoReads(repo, provenance) ==
  {repoKey(repo), refCountKey(repo)}
    \cup {refCountKey(p) : p \in provToAdd(repos[repo], provenance)
                                   \cup provToRemove(repos[repo], provenance)}

\* The Provenance updateRepo puts for a downstream repo it has listed as
\* info: a new name is appended unless it is there, of an old name the first
\* entry is taken out
updateRepoProv(info, add, remove) ==
  [p \in (provenanceOf(info) \cup add)
           \ {o \in remove : CopiesIn(o, info.prov) = 1} |->
     IF p \in remove THEN CopiesIn(p, info.prov) - 1
     ELSE IF p \in provenanceOf(info) THEN CopiesIn(p, info.prov)
     ELSE 1]

\* The refcount updateRepo stores for r
updateRepoRefCount(repo, add, remove, r) ==
  LET myRefCount == repoRefCounts[repo] + 1
  IN IF r \in add THEN repoRefCounts[r] + myRefCount
     ELSE IF r \in remove THEN repoRefCounts[r] - myRefCount
     ELSE repoRefCounts[r]

\* One run of the closure of updateRepo by slot i, up to listRepo
updateRepoAttempt(i, repo, provenance) ==
  LET err == updateRepoErr(repo, provenance)
  IN /\ IF err = ""
          THEN /\ calls' = [calls EXCEPT ![i] =
                    [op |-> "updateRepo", pc |-> "listGet", repo |-> repo,
                     provenance |-> provenance,
                     add |-> provToAdd(repos[repo], provenance),
                     remove |-> provToRemove(repos[repo], provenance),
                     reads |-> updateRepoReads(repo, provenance),
                     dirty |-> FALSE,
                     downstream |-> [r \in {} |-> 0]]]
               /\ UNCHANGED last
          ELSE /\ calls' = [calls EXCEPT ![i] = Idle]
               /\ last' = Returned("updateRepo", err)
     /\ UNCHANGED <<store, nextID, finishOK, db, treeCache, subVars>>

\* updateRepo up to the end of the reads through the STM of the first run
updateRepoRun(i, repo, provenance) ==
  /\ FreeSlot(i)
  /\ updateRepoAttempt(i, repo, provenance)

\* listRepo in the closure: repos.Get of the repo, outside the STM
updateRepoListGet(i) ==
  /\ calls[i].op = "updateRepo" /\ calls[i].pc = "listGet"
  /\ IF calls[i].repo \in DOMAIN repos
       THEN /\ calls' = [calls EXCEPT ![i] = [@ EXCEPT !.pc = "list"]]
            /\ UNCHANGED last
       ELSE /\ calls' = [calls EXCEPT ![i] = Idle]
            /\ last' = Returned("updateRepo", "not found")
  /\ UNCHANGED <<store, nextID, finishOK, db, treeCache, subVars>>

\* listRepo in the closure: repos.List(), outside the STM; the RepoInfos of
\* the downstream repos are kept as they are read
updateRepoList(i) ==
  /\ calls[i].op = "updateRepo" /\ calls[i].pc = "list"
  /\ calls' = [calls EXCEPT ![i] =
       [@ EXCEPT !.pc = "commit",
                 !.downstream = [r \in listRepo({calls[i].repo}) |-> repos[r]]]]
  /\ UNCHANGED <<store, nextID, last, finishOK, db, treeCache, subVars>>

\* The transaction does not commit: the closure runs again
updateRepoRetry(i) ==
  /\ calls[i].op = "updateRepo" /\ calls[i].pc = "commit"
  /\ calls[i].dirty
  /\ updateRepoAttempt(i, calls[i].repo, calls[i].provenance)

\* The transaction commits the writes of the last run: the refcounts, the
\* RepoInfos of the downstream repos as listRepo has read them, with their
\* Provenance changed, and the RepoInfo of the repo, with `provenance` as it
\* is given
updateRepoCommit(i) ==
  LET c == calls[i]
  IN /\ c.op = "updateRepo" /\ c.pc = "commit"
     /\ ~c.dirty
     /\ repoRefCounts' =
          [r \in DOMAIN repoRefCounts |->
             updateRepoRefCount(c.repo, c.add, c.remove, r)]
     /\ repos' =
          [r \in DOMAIN repos \cup DOMAIN c.downstream |->
             IF r = c.repo THEN [repos[r] EXCEPT !.prov = c.provenance]
             ELSE IF r \in DOMAIN c.downstream
               THEN [c.downstream[r] EXCEPT
                       !.prov = updateRepoProv(c.downstream[r], c.add, c.remove)]
             ELSE repos[r]]
     /\ calls' = stmWritten({refCountKey(p) : p \in c.add \cup c.remove}
                              \cup {repoKey(r) : r \in DOMAIN c.downstream}
                              \cup {repoKey(c.repo)},
                            [calls EXCEPT ![i] = Idle])
     /\ last' = Returned("updateRepo", "")
     /\ UNCHANGED <<commits, branches, openCommits, scratch, nextID,
                    finishOK, db, treeCache, subVars>>

\* deleteRepoErr without the refcount check of a delete that is not forced
deleteRepoErrUnchecked(repo, force) ==
  IF repo \notin DOMAIN repos THEN "not found"
  ELSE IF repo \notin DOMAIN repoRefCounts THEN "not found"
  ELSE ""

\* The error the deleteRepo transaction ends with ("" for nil)
deleteRepoErr(repo, force) ==
  IF ~force /\ repo \notin DOMAIN repoRefCounts THEN "not found"
  ELSE IF ~force /\ repoRefCounts[repo] # 0
    THEN "cannot delete the provenance of other repos"
  ELSE IF repo \notin DOMAIN repos THEN "not found"
  ELSE IF repo \notin DOMAIN repoRefCounts THEN "not found"
  ELSE ""

\* Events a watcher of the subscribed branch gets from a write to it
watchBranchPut(repo, branch, id) ==
  IF sub.pc \notin {"idle", "done"} /\ sub.repo = repo /\ sub.branch = branch
    THEN Append(branchWatch, [type |-> "put", commit |-> id])
    ELSE branchWatch
watchBranchDelete(repo, branch) ==
  IF sub.pc \notin {"idle", "done"} /\ sub.repo = repo /\ sub.branch = branch
    THEN Append(branchWatch, [type |-> "delete", commit |-> NoCommit])
    ELSE branchWatch
\* Events a watcher of the commit being waited for gets from a write to it
watchCommitPut(id, finished) ==
  IF sub.pc = "waitCommit" /\ sub.commit = id
    THEN Append(commitWatch, [type |-> "put", commit |-> id, finished |-> finished])
    ELSE commitWatch
watchCommitDelete(id) ==
  IF sub.pc = "waitCommit" /\ sub.commit = id
    THEN Append(commitWatch, [type |-> "delete", commit |-> id, finished |-> FALSE])
    ELSE commitWatch

\* The flushCommit stream before flushCommit is called.  from is the list
\* fromCommits, toRepos is <<>> (nil) or <<list>>, watch holds the watchers
\* that are open, by the indices of their commit in from and of their repo in
\* repos: the events the watcher has still to hand out (evs) and the event
\* its goroutine is sending on stream (held)
FlushIdle == [pc |-> "idle", from |-> <<>>, toRepos |-> <<>>, repos |-> <<>>,
              n |-> 0, repoCounts |-> [r \in {} |-> 0], downstream |-> <<>>,
              watch |-> [k \in {} |-> <<>>], counts |-> [c \in {} |-> 0],
              stream |-> <<>>, out |-> <<>>,
              ev |-> <<>>, respDone |-> FALSE]
\* The Put event of a write of the CommitInfo info under the ID id
flushEvent(id, info) ==
  [commit |-> id, repo |-> info.repo, prov |-> info.prov,
   finished |-> info.finished]
\* Events the watchers by ProvenanceIndex get from a write of a CommitInfo:
\* the watcher of the commit c on the commits of repo r gets a Put for every
\* write of a commit of repo r whose Provenance holds c
flushWatchPut(id, info) ==
  [flush EXCEPT !.watch =
     [k \in DOMAIN flush.watch |->
        IF /\ flush.from[k[1]].id \in info.prov
           /\ flush.repos[k[2]] = info.repo
          THEN [flush.watch[k] EXCEPT !.evs = Append(@, flushEvent(id, info))]
          ELSE flush.watch[k]]]

commitsOf(repo) == {c \in DOMAIN commits : commits[c].repo = repo}
branchesOf(repo) == {k \in DOMAIN branches : k[1] = repo}

deleteRepo(repo, force) ==
  LET err == deleteRepoErr(repo, force)
  IN /\ IF err = ""
          THEN /\ repoRefCounts' =
                    [r \in DOMAIN repoRefCounts \ {repo} |->
                       repoRefCounts[r] - CopiesIn(r, repos[repo].prov)]
               /\ repos' = colDelete(repos, repo)
               /\ commits' = colDeleteAll(commits, commitsOf(repo))
               /\ branches' = colDeleteAll(branches, branchesOf(repo))
               /\ branchWatch' =
                    IF \E k \in branchesOf(repo) : k[2] = sub.branch
                      THEN watchBranchDelete(repo, sub.branch) ELSE branchWatch
               /\ commitWatch' =
                    IF sub.commit \in commitsOf(repo)
                      THEN watchCommitDelete(sub.commit) ELSE commitWatch
               /\ calls' = stmWritten(
                    {repoKey(repo), refCountKey(repo)}
                      \cup {refCountKey(p) : p \in provenanceOf(repos[repo])}
                      \cup {commitKey(id) : id \in commitsOf(repo)}
                      \cup {branchKey(k[1], k[2]) : k \in branchesOf(repo)},
                    calls)
          ELSE UNCHANGED <<repos, repoRefCounts, commits, branches,
                           branchWatch, commitWatch, calls>>
     /\ last' = Returned("deleteRepo", err)
     /\ UNCHANGED <<openCommits, scratch, nextID, finishOK, db, treeCache,
                    sub, done, delivered, flush>>

\* ---------------------------------------------------------------- commits
\* A reference to a commit as a handler is given it: a commit ID or a branch
\* name, with an ancestry depth; kind "none" is the empty ID
NoRef == [kind |-> "none", id |-> NoCommit, name |-> "", anc |-> 0]
IDRef(id) == [kind |-> "id", id |-> id, name |-> "", anc |-> 0]
BranchRef(name) == [kind |-> "branch", id |-> NoCommit, name |-> name, anc |-> 0]

\* hashtree.NewHashTree().Finish(): no file
EmptyTree == [p \in {} |-> [objects |-> <<>>, size |-> 0]]
\* pfs.ChunkSize, in the model's unit of size: the size of every object of
\* PutObjectSplit but the last
ChunkSize == 2
\* The object store: "h2" is a full chunk, "h1" a last, shorter object
ObjectSize(h) == IF h = "h1" THEN 1 ELSE ChunkSize
\* HashTree.FSSize
FSSize(tree) == SumOver([p \in DOMAIN tree |-> tree[p].size], DOMAIN tree)

\* sizeChange: the sizes of the file nodes tree.Diff(parentTree) reports new;
\* of a directory these are its new children
sizeChange(tree, parentTree) ==
  LET new == {p \in DOMAIN tree :
                p \notin DOMAIN parentTree \/ tree[p] # parentTree[p]}
      before(p) == IF p \in DOMAIN parentTree /\ "children" \in DOMAIN parentTree[p]
                     THEN parentTree[p].children
                     ELSE [n \in {} |-> [objects |-> <<>>, size |-> 0]]
      newChildren(p) == {n \in DOMAIN tree[p].children :
                           n \notin DOMAIN before(p)
                             \/ tree[p].children[n] # before(p)[n]}
      fileSizes(p) == IF "children" \in DOMAIN tree[p]
                        THEN SumOver([n \in newChildren(p) |->
                                        tree[p].children[n].size],
                                     newChildren(p))
                        ELSE tree[p].size
  IN SumOver([p \in new |-> fileSizes(p)], new)

\* inspectCommit's loop: follow ParentCommit n times from id
RECURSIVE ancestor(_, _, _)
ancestor(repo, id, n) ==
  IF id = NoCommit \/ id \notin commitsOf(repo) THEN NoCommit
  ELSE IF n = 0 THEN id
  ELSE ancestor(repo, commits[id].parent, n - 1)

\* inspectCommit in one state: the commit ID a reference resolves to,
\* NoCommit for ErrCommitNotFound
inspectCommit(repo, ref) ==
  LET commitID == IF ref.kind = "branch"
                    THEN IF <<repo, ref.name>> \in DOMAIN branches
                           THEN branches[<<repo, ref.name>>] ELSE NoCommit
                    ELSE ref.id
  IN ancestor(repo, commitID, ref.anc)

\* inspectCommit reads etcd once in a transaction, for the branch, and then
\* once for every commit of its loop.  A handler that calls it with a branch
\* name takes these as steps of its own; the ID of a commit is the name of
\* no branch, so that with an ID and without depth the commit is its one
\* read.

\* inspectCommit's transaction: branches.Get of the ID.  The head of the
\* branch takes the place of its name; a name that is no branch is kept,
\* and is the ID of no commit
inspectCommitBranch(repo, ref) ==
  IF ref.kind = "branch"
    THEN [kind |-> "id",
          id |-> IF <<repo, ref.name>> \in DOMAIN branches
                   THEN branches[<<repo, ref.name>>] ELSE NoCommit,
          name |-> "", anc |-> ref.anc]
    ELSE ref

\* One turn of inspectCommit's loop, for the reference the transaction has
\* left: commits.Get of nextCommit.  The loop is over (done) with
\* ErrCommitNotFound (id is NoCommit), also for a commit without the
\* ParentCommit the next turn asks for, or with the commit; else it goes on
\* with the ParentCommit
inspectCommitGet(repo, ref) ==
  IF ref.id = NoCommit \/ ref.id \notin commitsOf(repo)
    THEN [done |-> TRUE, id |-> NoCommit, ref |-> ref]
  ELSE IF ref.anc <= 0 THEN [done |-> TRUE, id |-> ref.id, ref |-> ref]
  ELSE IF commits[ref.id].parent = NoCommit
    THEN [done |-> TRUE, id |-> NoCommit, ref |-> ref]
  ELSE [done |-> FALSE, id |-> NoCommit,
        ref |-> [ref EXCEPT !.id = commits[ref.id].parent, !.anc = @ - 1]]

\* The tables of the database-backed driver, in the order InitDB, RemoveDB
\* and DeleteAll go through them
tables == <<"Repos", "Commits", "Diffs", "Clocks">>
\* The indexes the driver queries, each with its table, in the order InitDB
\* makes them
Indexes ==
  <<[name |-> "DiffPathIndex", table |-> "Diffs"],
    [name |-> "DiffPrefixIndex", table |-> "Diffs"],
    [name |-> "DiffParentIndex", table |-> "Diffs"],
    [name |-> "DiffClockIndex", table |-> "Diffs"],
    [name |-> "ClockBranchIndex", table |-> "Clocks"],
    [name |-> "CommitClockIndex", table |-> "Commits"]>>
\* Its database after InitDB and CreateRepo of the one repo of the model: the
\* tables and the indexes there are, the names in Repos, the keys in Clocks
\* and the rows of Commits by their ID.  No call of the model writes a row of
\* Diffs
NoDB ==
  [tables |-> {tables[k] : k \in 1..Len(tables)},
   indexes |-> {Indexes[k].name : k \in 1..Len(Indexes)},
   repos |-> {CommitRepo}, clocks |-> {}, commits |-> <<>>]

\* The empty treeCache (lru.New; it holds more trees than there are commits)
NoTrees == [c \in {} |-> EmptyTree]

\* What a handler does next when it returns err
Return(name, err) == [op |-> "return", name |-> name, err |-> err]

\* The handler of slot i goes on as `next`
proceed(i, next) ==
  IF next.op = "return"
    THEN /\ calls' = [calls EXCEPT ![i] = Idle]
         /\ last' = Returned(next.name, next.err)
    ELSE /\ calls' = [calls EXCEPT ![i] = next]
         /\ UNCHANGED last

\* The name a handler returns under
opName(c) ==
  IF c.op = "makeCommit"
    THEN IF c.treeRef = <<>> THEN "startCommit" ELSE "buildCommit"
    ELSE c.op

\* makeCommit: the parent reference after the branch head is taken as parent
makeCommitParent(repo, parent, branch) ==
  IF branch # "" /\ parent.kind = "none" /\ <<repo, branch>> \in DOMAIN branches
    THEN IDRef(branches[<<repo, branch>>])
    ELSE parent

\* The error of the reads of the closure of makeCommit through the STM
makeCommitErr(repo, provenance) ==
  IF repo \notin DOMAIN repos THEN "not found"
  ELSE IF \E c \in provenance : c \notin DOMAIN commits THEN "not found"
  ELSE ""

\* The keys the closure of makeCommit reads through the STM: the branch only
\* when parent.ID is empty
makeCommitReads(repo, parent, branch, provenance) ==
  {repoKey(repo)}
    \cup {commitKey(c) : c \in provenance}
    \cup (IF branch # "" /\ parent.kind = "none"
            THEN {branchKey(repo, branch)} ELSE {})

\* The error of the closure of makeCommit for its parent, had it not looked
\* at the parent's Finished
makeCommitParentErrUnchecked(repo, parent) ==
  IF inspectCommit(repo, parent) = NoCommit THEN "commit not found" ELSE ""

\* The error of the closure of makeCommit for its parent ("" for nil)
makeCommitParentErr(repo, parent) ==
  IF inspectCommit(repo, parent) = NoCommit THEN "commit not found"
  ELSE IF ~commits[inspectCommit(repo, parent)].finished
    THEN "parent commit has not been finished"
  ELSE ""

\* makeCommitInfo keeping only the provenance commits that are given
makeCommitInfoGiven(repo, provenance, treeRef) ==
  [repo |-> repo,
   parent |-> NoCommit,
   prov |-> provenance,
   finished |-> treeRef # <<>>,
   object |-> treeRef # <<>>,
   tree |-> IF treeRef # <<>> THEN treeRef[1] ELSE EmptyTree,
   size |-> IF treeRef # <<>> THEN FSSize(treeRef[1]) ELSE 0]

\* The CommitInfo the closure of makeCommit builds before it looks at the
\* parent; treeRef is <<>> (startCommit) or <<tree>>.  `object` says that
\* CommitInfo.Tree is not nil, `tree` is the tree of that object
makeCommitInfo(repo, provenance, treeRef) ==
  [repo |-> repo,
   parent |-> NoCommit,
   prov |-> provenance \cup UNION {commits[c].prov : c \in provenance},
   finished |-> treeRef # <<>>,
   object |-> treeRef # <<>>,
   tree |-> IF treeRef # <<>> THEN treeRef[1] ELSE EmptyTree,
   size |-> IF treeRef # <<>> THEN FSSize(treeRef[1]) ELSE 0]

\* ---------------------------------------------------------------- scratch
\* The keys under scratchCommitPrefix of the commit, in the order they were
\* written (`scratch` is kept in mod-revision order)
scratchKeys(id) == SelectSeq(scratch, LAMBDA kv : kv.commit = id)

\* The same keys, newest first
RECURSIVE Reverse(_)
Reverse(seq) ==
  IF seq = <<>> THEN <<>> ELSE Append(Reverse(Tail(seq)), Head(seq))
scratchGetDescending(id) == Reverse(scratchKeys(id))

\* etcdClient.Get(prefix, WithPrefix(), WithSort(SortByModRevision,
\* SortAscend)) on the commit's prefix
scratchGet(id) == scratchKeys(id)
\* etcdClient.Delete(prefix, WithPrefix())
scratchDelete(id) == SelectSeq(scratch, LAMBDA kv : kv.commit # id)

\* putFile's loop over the objects of PutObjectSplit: one record per object,
\* every one but the last of ChunkSize bytes
RECURSIVE putFileRecords(_, _)
putFileRecords(objects, size) ==
  IF objects = <<>> THEN <<>>
  ELSE <<[hash |-> Head(objects),
          size |-> IF size > ChunkSize THEN ChunkSize ELSE size]>>
         \o putFileRecords(Tail(objects), size - ChunkSize)

\* PutObjectSplit: the objects a reader's content is stored as
PutObjectSplit == {<<"h1">>, <<"h2", "h1">>}
RECURSIVE objectsSize(_)
objectsSize(objects) ==
  IF objects = <<>> THEN 0
  ELSE ObjectSize(Head(objects)) + objectsSize(Tail(objects))

\* OpenHashTree.PutFile: append the object to the file, add its size
treePutFile(tree, path, hash, size) ==
  IF path \in DOMAIN tree
    THEN [tree EXCEPT ![path] = [objects |-> Append(@.objects, hash),
                                 size |-> @.size + size]]
    ELSE colPut(tree, path, [objects |-> <<hash>>, size |-> size])
\* OpenHashTree.DeleteFile that leaves the file where it is
treeDeleteFileKept(tree, path) == tree
\* The bytes of a file path
pathBytes(path) ==
  IF path = "/x" THEN <<"/", "x">>
  ELSE IF path = "/y" THEN <<"/", "y">>
  ELSE IF path = "/x/y" THEN <<"/", "x", "/", "y">>
  ELSE <<"/", "x", "y">>
\* strings.HasPrefix on sequences of bytes
hasPrefix(s, prefix) ==
  Len(prefix) <= Len(s) /\ SubSeq(s, 1, Len(prefix)) = prefix
\* The node of q is the node of path or lies in the directory path
isUnder(q, path) ==
  q = path \/ hasPrefix(pathBytes(q), pathBytes(path) \o <<"/">>)
\* The nodes a tree holds at a path and below it
treeUnder(tree, path) == {q \in DOMAIN tree : isUnder(q, path)}
\* OpenHashTree.DeleteFile: the node and, of a directory, everything in it;
\* PathNotFound is ignored by applyWrites
treeDeleteFile(tree, path) == colDeleteAll(tree, treeUnder(tree, path))
\* The error code of OpenHashTree.DeleteFile ("" for nil)
treeDeleteFileErr(tree, path) ==
  IF treeUnder(tree, path) # {} THEN "" ELSE "PathNotFound"

\* OpenHashTree.PutFileOverwrite: the objects from overwriteIndex on are
\* dropped, the object is appended, sizeDelta is added to the size
treePutFileOverwrite(tree, path, hash, index, sizeDelta) ==
  IF path \in DOMAIN tree
    THEN [tree EXCEPT ![path] =
            [objects |-> Append(SubSeq(@.objects, 1,
                                       IF index < Len(@.objects)
                                         THEN index ELSE Len(@.objects)),
                                hash),
             size |-> @.size + sizeDelta]]
    ELSE colPut(tree, path, [objects |-> <<hash>>, size |-> sizeDelta])

\* applyWrites' sizeMap when it starts
EmptySizeMap == [h \in {} |-> 0]

\* sizeMap[hash] of applyWrites: 0 for a hash that is not a key of the map
sizeMapGet(sizeMap, hash) ==
  IF hash \in DOMAIN sizeMap THEN sizeMap[hash] ELSE 0

\* The sum of sizeMap over the objects at positions index + 1 .. Len
RECURSIVE sizeMapSum(_, _, _)
sizeMapSum(sizeMap, objects, index) ==
  IF index >= Len(objects) THEN 0
  ELSE sizeMapGet(sizeMap, objects[index + 1])
         + sizeMapSum(sizeMap, objects, index + 1)

\* applyWrites' size delta of a record with OverwriteIndex, sizeMap holding
\* the record already
overwriteDelta(tree, path, record, sizeMap) ==
  IF path \in DOMAIN tree
    THEN record.size - sizeMapSum(sizeMap, tree[path].objects,
                                  record.overwriteIndex)
    ELSE record.size

\* applyWrites' loop over the records of one key: the tree and the sizeMap
\* after it
RECURSIVE applyRecordsFrom(_, _, _, _)
applyRecordsFrom(path, records, tree, sizeMap) ==
  IF records = <<>> THEN [tree |-> tree, sizeMap |-> sizeMap]
  ELSE LET record == Head(records)
           sized == colPut(sizeMap, record.hash, record.size)
       IN applyRecordsFrom(path, Tail(records),
            IF "overwriteIndex" \in DOMAIN record
              THEN treePutFileOverwrite(tree, path, record.hash,
                                        record.overwriteIndex,
                                        overwriteDelta(tree, path, record, sized))
              ELSE treePutFile(tree, path, record.hash, record.size),
            sized)

applyRecords(path, records, tree) ==
  applyRecordsFrom(path, records, tree, EmptySizeMap).tree

\* ---- split records
\* The characters of the names of the children of a directory, in byte
\* order; a name is a sequence of characters
HexDigits ==
  <<"0", "1", "2", "3", "4", "5", "6", "7", "8", "9",
    "a", "b", "c", "d", "e", "f">>
NameChars == HexDigits \o <<"z">>
charRank(ch) == CHOOSE k \in 1..Len(NameChars) : NameChars[k] = ch

\* splitSuffixFmt = "%016x": the width of the name of a split child
splitSuffixFmt == 16
\* splitSuffixBase
splitSuffixBase == 16

\* fmt.Sprintf("%0<width>x", n)
RECURSIVE Sprintf0x(_, _)
Sprintf0x(n, width) ==
  IF width = 0 THEN <<>>
  ELSE Append(Sprintf0x(n \div splitSuffixBase, width - 1),
              HexDigits[(n % splitSuffixBase) + 1])

\* strconv.ParseInt(name, splitSuffixBase, splitSuffixWidth): its error ("" for
\* nil).  The names of the model stay far below 2^63.
ParseIntErr(name) ==
  IF name = <<>> THEN "invalid syntax"
  ELSE IF \E k \in 1..Len(name) : charRank(name[k]) > splitSuffixBase
    THEN "invalid syntax"
  ELSE ""

\* The value strconv.ParseInt returns for the first k characters of the name
RECURSIVE ParseInt(_, _)
ParseInt(name, k) ==
  IF k = 0 THEN 0
  ELSE ParseInt(name, k - 1) * splitSuffixBase + (charRank(name[k]) - 1)

\* Name a comes before name b in the order of OpenHashTree.List
nameLess(a, b) ==
  \/ \E k \in 1..Len(a) :
       /\ k <= Len(b)
       /\ \A j \in 1..(k - 1) : a[j] = b[j]
       /\ charRank(a[k]) < charRank(b[k])
  \/ Len(a) < Len(b) /\ \A j \in 1..Len(a) : a[j] = b[j]

\* A directory without children, and the children of path in the tree
NoChildren == [n \in {} |-> [objects |-> <<>>, size |-> 0]]
treeChildren(tree, path) ==
  IF path \in DOMAIN tree /\ "children" \in DOMAIN tree[path]
    THEN tree[path].children ELSE NoChildren

\* nodes[len(nodes)-1].Name of OpenHashTree.List(path): the last name
treeListLast(tree, path) ==
  LET names == DOMAIN treeChildren(tree, path)
  IN CHOOSE n \in names : \A m \in names : m = n \/ nameLess(m, n)

\* OpenHashTree.PutFile(path.Join(filePath, name)): the object is appended
\* to the child, which is made if it is not there
treePutChild(tree, path, name, hash, size) ==
  LET children == treeChildren(tree, path)
      child == IF name \in DOMAIN children
                 THEN [objects |-> Append(children[name].objects, hash),
                       size |-> children[name].size + size]
                 ELSE [objects |-> <<hash>>, size |-> size]
      before == IF path \in DOMAIN tree THEN tree[path].size ELSE 0
  IN colPut(tree, path, [objects |-> <<>>, size |-> before + size,
                         children |-> colPut(children, name, child)])

\* indexOffset of applyWrites, had it not been incremented
splitIndexOffsetLast(tree, path) ==
  IF DOMAIN treeChildren(tree, path) = {} THEN 0
  ELSE ParseInt(treeListLast(tree, path), Len(treeListLast(tree, path)))

\* indexOffset of applyWrites: one more than the name of the last child
splitIndexOffset(tree, path) ==
  IF DOMAIN treeChildren(tree, path) = {} THEN 0
  ELSE ParseInt(treeListLast(tree, path), Len(treeListLast(tree, path))) + 1

\* The error of applyWrites for a key with records.Split
splitErr(tree, path) ==
  IF DOMAIN treeChildren(tree, path) = {} THEN ""
  ELSE IF ParseIntErr(treeListLast(tree, path)) # ""
    THEN "error parsing filename as int"
  ELSE ""

\* applyWrites' loop over the records of a key with records.Split: record i
\* goes to the child of name i + indexOffset
RECURSIVE applySplitFrom(_, _, _, _, _)
applySplitFrom(path, records, i, indexOffset, tree) ==
  IF i >= Len(records) THEN tree
  ELSE applySplitFrom(path, records, i + 1, indexOffset,
         treePutChild(tree, path, Sprintf0x(i + indexOffset, splitSuffixFmt),
                      records[i + 1].hash, records[i + 1].size))

applySplit(path, records, tree) ==
  applySplitFrom(path, records, 0, splitIndexOffset(tree, path), tree)

\* records.Split of the value of a scratch key
isSplit(kv) == "split" \in DOMAIN kv /\ kv.split

\* A scratch key of a file in the directory kv.path: the key copyFile writes
\* for a file below the path it copies
isChild(kv) == "child" \in DOMAIN kv

\* applyWrites' loop over the records of such a key: OpenHashTree.PutFile
\* puts the objects in the child of the directory
RECURSIVE applyChildFrom(_, _, _, _, _)
applyChildFrom(path, name, records, tree, sizeMap) ==
  IF records = <<>> THEN [tree |-> tree, sizeMap |-> sizeMap]
  ELSE applyChildFrom(path, name, Tail(records),
                      treePutChild(tree, path, name, Head(records).hash,
                                   Head(records).size),
                      colPut(sizeMap, Head(records).hash, Head(records).size))

\* applyWrites' loop over the keys: the tree and the sizeMap after it
RECURSIVE applyWritesFrom(_, _, _)
applyWritesFrom(kvs, tree, sizeMap) ==
  IF kvs = <<>> THEN [tree |-> tree, sizeMap |-> sizeMap]
  ELSE IF Head(kvs).tombstone
    THEN applyWritesFrom(Tail(kvs), treeDeleteFile(tree, Head(kvs).path),
                         sizeMap)
  ELSE IF isSplit(Head(kvs))
    THEN applyWritesFrom(Tail(kvs),
                         applySplit(Head(kvs).path, Head(kvs).records, tree),
                         sizeMap)
  ELSE IF isChild(Head(kvs))
    THEN LET applied == applyChildFrom(Head(kvs).path, Head(kvs).child,
                                       Head(kvs).records, tree, sizeMap)
         IN applyWritesFrom(Tail(kvs), applied.tree, applied.sizeMap)
  ELSE LET applied == applyRecordsFrom(Head(kvs).path, Head(kvs).records,
                                       tree, sizeMap)
       IN applyWritesFrom(Tail(kvs), applied.tree, applied.sizeMap)

\* applyWrites: the scratch keys, in the order given, folded onto the tree
applyWrites(kvs, tree) == applyWritesFrom(kvs, tree, EmptySizeMap).tree

\* The error applyWrites returns ("" for nil): the error of DeleteFile unless
\* it is PathNotFound, the error of ParseInt on the name of the last child,
\* and the error for a key without records
RECURSIVE applyWritesErr(_, _)
applyWritesErr(kvs, tree) ==
  IF kvs = <<>> THEN ""
  ELSE LET kv == Head(kvs)
           err == IF kv.tombstone
                    THEN IF treeDeleteFileErr(tree, kv.path) = "PathNotFound"
                           THEN "" ELSE treeDeleteFileErr(tree, kv.path)
                  ELSE IF isSplit(kv) THEN splitErr(tree, kv.path)
                  ELSE IF kv.records = <<>>
                    THEN "unexpect 0 length pfs.PutFileRecord"
                  ELSE ""
       IN IF err # "" THEN err
          ELSE applyWritesErr(Tail(kvs), applyWrites(<<kv>>, tree))

\* putFile by commit ID, Delimiter_NONE, no overwriteIndex: putRecords' etcd
\* transaction writes the records only if openCommits holds the commit
putFile(id, path, objects) ==
  /\ UNCHANGED <<repos, repoRefCounts, commits, branches, openCommits, nextID,
                 calls, finishOK, db, treeCache, subVars>>
  /\ IF id \in openCommits
       THEN /\ scratch' = Append(scratch,
                 [commit |-> id, path |-> path, tombstone |-> FALSE,
                  records |-> putFileRecords(objects, objectsSize(objects))])
            /\ last' = Returned("putFile", "")
       ELSE /\ UNCHANGED scratch
            /\ last' = Returned("putFile", "commit is not open")

\* scratchFilePrefix, from the commit's prefix on: path.Join adds the path of
\* the file and no trailing slash
scratchFilePrefix(path) == pathBytes(path)
\* The etcd key of a scratch record from the commit's prefix on: the path of
\* the file, a slash and a UUID of hexadecimal digits, which no byte of a
\* path of the model is
scratchKeyBytes(kv) ==
  IF isChild(kv)
    THEN pathBytes(kv.path) \o <<"/">> \o kv.child \o <<"/", "uuid">>
    ELSE pathBytes(kv.path) \o <<"/", "uuid">>

\* getTreeForFile's etcdClient.Get on scratchFilePrefix of the file
scratchGetFile(id, path) ==
  SelectSeq(scratchGet(id),
            LAMBDA kv : hasPrefix(scratchKeyBytes(kv), scratchFilePrefix(path)))

\* ------------------------------------------------- the tree of a commit
\* getTreeForCommit reads treeCache, then etcd twice, then the object store.
\* A handler that calls it holds the commit in `treeOf` and the tree of the
\* CommitInfo it has read in `treeRead`, and goes on with the tree.

\* The closure of makeCommit once it has the tree of the parent: the
\* transaction is ready to commit
makeCommitTree(c, parentTree) ==
  [c EXCEPT !.pc = "commit",
            !.sizeChange = IF c.treeRef # <<>>
                             THEN sizeChange(c.treeRef[1], parentTree) ELSE 0]

\* hashtree.Serialize: the bytes of a finished tree, none for the tree
\* without a file
Serialize(tree) == IF tree = EmptyTree THEN <<>> ELSE <<tree>>

\* finishCommit once it has the tree of the parent: the scratch keys are
\* applied to it, and the CommitInfo is filled in; the tree is put into the
\* object store, and CommitInfo.Tree set, only if it has bytes
finishCommitTree(c, parentTree) ==
  LET finishedTree == applyWrites(c.resp, parentTree)
      err == applyWritesErr(c.resp, parentTree)
      data == Serialize(finishedTree)
  IN IF err # "" THEN Return("finishCommit", err)
     ELSE [c EXCEPT !.pc = "stm",
                    !.sizeChange = sizeChange(finishedTree, parentTree),
                    !.commitInfo = [@ EXCEPT !.tree = finishedTree,
                                             !.object = IF Len(data) > 0
                                                          THEN TRUE ELSE @,
                                             !.size = FSSize(finishedTree),
                                             !.finished = TRUE]]

\* copyFile's records for a file node: the first record carries the size of
\* the whole file, the others 0
copyFileRecords(node) ==
  [i \in 1..Len(node.objects) |->
     [hash |-> node.objects[i], size |-> IF i = 1 THEN node.size ELSE 0]]

\* srcTree.Walk(src.Path): the file nodes at the path and below it, by their
\* path relative to it (<<>> for the node of the path); the trees of the
\* model hold a directory as the children of a path
walkFiles(tree, path) ==
  IF "children" \in DOMAIN tree[path]
    THEN tree[path].children
    ELSE [n \in {<<>>} |-> tree[path]]

\* copyFile once it has the tree of the source: a goroutine is started for
\* every file node of the walk
copyFileWalk(c, tree) ==
  IF c.srcPath \notin DOMAIN tree THEN Return("copyFile", "file not found")
  ELSE IF DOMAIN walkFiles(tree, c.srcPath) = {} THEN Return("copyFile", "")
  ELSE [c EXCEPT !.pc = "put",
                 !.nodes = walkFiles(tree, c.srcPath),
                 !.pending = DOMAIN walkFiles(tree, c.srcPath)]

\* getFile once it has the tree: tree.Get of the path
getFileGet(c, tree) ==
  IF c.srcPath \notin DOMAIN tree THEN Return("getFile", "file not found")
  ELSE IF "children" \in DOMAIN tree[c.srcPath]
    THEN Return("getFile", "is a directory")
  ELSE Return("getFile", "")

\* getTreeForFile once getTreeForCommit has returned: the tree of a finished
\* commit; for an open commit the parent's tree with the scratch keys under
\* the file's prefix applied
getTreeForFileTree(c, tree) ==
  LET err == IF c.commitInfo.finished THEN ""
             ELSE applyWritesErr(c.resp, tree)
      fileTree == IF c.commitInfo.finished THEN tree
                  ELSE applyWrites(c.resp, tree)
  IN IF err # "" THEN Return(c.op, err)
     ELSE IF c.op = "copyFile" THEN copyFileWalk(c, fileTree)
     ELSE getFileGet(c, fileTree)

\* The handler c once getTreeForCommit has returned the tree
treeFound(c, tree) ==
  IF c.op = "makeCommit" THEN makeCommitTree(c, tree)
  ELSE IF c.op = "finishCommit" THEN finishCommitTree(c, tree)
  ELSE getTreeForFileTree(c, tree)

\* The handler c calls getTreeForCommit: the empty tree for a nil commit and
\* for an empty ID
getTreeForCommit(c, id) ==
  IF id = NoCommit THEN treeFound(c, EmptyTree)
  ELSE [c EXCEPT !.pc = "treeCache", !.treeOf = id]

\* getTreeForCommit: treeCache.Get
getTreeForCommitCache(i) ==
  LET c == calls[i]
  IN /\ c.op \in {"makeCommit", "finishCommit", "copyFile", "getFile"}
     /\ c.pc = "treeCache"
     /\ proceed(i, IF c.treeOf \in DOMAIN treeCache
                     THEN treeFound(c, treeCache[c.treeOf])
                     ELSE [c EXCEPT !.pc = "treeInspect"])
     /\ UNCHANGED <<store, nextID, finishOK, db, treeCache, subVars>>

\* getTreeForCommit: inspectCommit of the commit
getTreeForCommitInspect(i) ==
  LET c == calls[i]
  IN /\ c.op \in {"makeCommit", "finishCommit", "copyFile", "getFile"}
     /\ c.pc = "treeInspect"
     /\ proceed(i, IF inspectCommit(c.repo, IDRef(c.treeOf)) = NoCommit
                     THEN Return(opName(c), "commit not found")
                     ELSE [c EXCEPT !.pc = "treeGet"])
     /\ UNCHANGED <<store, nextID, finishOK, db, treeCache, subVars>>

\* The error of getTreeForCommit once inspectCommit has found the commit:
\* the error of commits.Get, and the one for a commit that is not finished
getTreeForCommitErr(repo, id) ==
  IF id \notin commitsOf(repo) THEN "not found"
  ELSE IF ~commits[id].finished THEN "cannot read from an open commit"
  ELSE ""

\* getTreeForCommit: commits.Get of the commit; a finished commit without
\* Tree has the empty tree, else the read of the object is next
getTreeForCommitGet(i) ==
  LET c == calls[i]
      err == getTreeForCommitErr(c.repo, c.treeOf)
  IN /\ c.op \in {"makeCommit", "finishCommit", "copyFile", "getFile"}
     /\ c.pc = "treeGet"
     /\ proceed(i, IF err # "" THEN Return(opName(c), err)
                   ELSE IF ~commits[c.treeOf].object THEN treeFound(c, EmptyTree)
                   ELSE [c EXCEPT !.pc = "treeObject",
                                  !.treeRead = commits[c.treeOf].tree])
     /\ UNCHANGED <<store, nextID, finishOK, db, treeCache, subVars>>

\* getTreeForCommit: pachClient.GetObject of the Tree read with the commit
\* and hashtree.Deserialize; the tree is added to treeCache under the ID of
\* the commit, whatever has become of the commit since
getTreeForCommitObject(i) ==
  LET c == calls[i]
  IN /\ c.op \in {"makeCommit", "finishCommit", "copyFile", "getFile"}
     /\ c.pc = "treeObject"
     /\ proceed(i, treeFound([c EXCEPT !.treeRead = EmptyTree], c.treeRead))
     /\ treeCache' = (c.treeOf :> c.treeRead) @@ treeCache
     /\ UNCHANGED <<store, nextID, finishOK, db, subVars>>

\* ------------------------------------------------------------- makeCommit
\* The closure of makeCommit reads the repo, the provenance commits and, when
\* parent.ID is empty, the branch through the STM; inspectCommit and
\* getTreeForCommit read outside of it.  The closure assigns parent.ID (the
\* head of the branch, then the ID inspectCommit resolves it to), and that
\* assignment outlives the run.

\* One run of the closure by slot i, from the parent the slot holds, up to
\* the end of its reads through the STM
makeCommitAttempt(i, repo, parent, branch, provenance, treeRef, given) ==
  LET err == makeCommitErr(repo, provenance)
      pref == makeCommitParent(repo, parent, branch)
      c == [op |-> "makeCommit",
            pc |-> IF pref.kind = "branch" THEN "parent" ELSE "parentGet",
            repo |-> repo,
            given |-> given, parent |-> pref, inspect |-> pref,
            branch |-> branch,
            provenance |-> provenance, treeRef |-> treeRef,
            reads |-> makeCommitReads(repo, parent, branch, provenance),
            dirty |-> FALSE,
            commitInfo |-> makeCommitInfo(repo, provenance, treeRef),
            sizeChange |-> 0, treeOf |-> NoCommit,
                   treeRead |-> EmptyTree]
  IN /\ proceed(i, IF err # ""
                     THEN Return(IF treeRef = <<>> THEN "startCommit"
                                                   ELSE "buildCommit", err)
                   ELSE IF pref.kind = "none" THEN makeCommitTree(c, EmptyTree)
                   ELSE c)
     /\ UNCHANGED <<store, nextID, finishOK, db, treeCache, subVars>>

\* makeCommit up to the end of the reads through the STM of the first run
makeCommitRun(i, repo, parent, branch, provenance, treeRef) ==
  /\ FreeSlot(i)
  /\ makeCommitAttempt(i, repo, parent, branch, provenance, treeRef, parent)

\* The closure's inspectCommit of a parent given by a branch name: its
\* transaction
makeCommitInspect(i) ==
  LET c == calls[i]
  IN /\ c.op = "makeCommit" /\ c.pc = "parent"
     /\ proceed(i, [c EXCEPT !.pc = "parentGet",
                             !.inspect = inspectCommitBranch(c.repo, c.parent)])
     /\ UNCHANGED <<store, nextID, finishOK, db, treeCache, subVars>>

\* The closure's inspectCommit of the parent: commits.Get in its loop; at
\* the end of the loop parent.ID is replaced, and the closure looks at the
\* parent's Finished
makeCommitInspectGet(i) ==
  LET c == calls[i]
      turn == inspectCommitGet(c.repo, c.inspect)
      err == makeCommitParentErr(c.repo, c.inspect)
  IN /\ c.op = "makeCommit" /\ c.pc = "parentGet"
     /\ proceed(i, IF ~turn.done THEN [c EXCEPT !.inspect = turn.ref]
                   ELSE IF err # "" THEN Return(opName(c), err)
                   ELSE getTreeForCommit(
                          [c EXCEPT !.parent = IDRef(turn.id),
                                    !.commitInfo = [@ EXCEPT !.parent = turn.id]],
                          turn.id))
     /\ UNCHANGED <<store, nextID, finishOK, db, treeCache, subVars>>

\* The transaction does not commit: the closure runs again
makeCommitRetry(i) ==
  /\ calls[i].op = "makeCommit" /\ calls[i].pc = "commit"
  /\ calls[i].dirty
  /\ makeCommitAttempt(i, calls[i].repo, calls[i].parent, calls[i].branch,
                       calls[i].provenance, calls[i].treeRef, calls[i].given)

\* The transaction commits the writes of the last run
makeCommitCommit(i) ==
  LET c == calls[i]
      info == c.commitInfo
  IN /\ c.op = "makeCommit" /\ c.pc = "commit"
     /\ ~c.dirty
     /\ commits' = colPut(commits, nextID, info)
     /\ branches' = IF c.branch # ""
                      THEN colPut(branches, <<c.repo, c.branch>>, nextID)
                      ELSE branches
     /\ branchWatch' = IF c.branch # ""
                         THEN watchBranchPut(c.repo, c.branch, nextID)
                         ELSE branchWatch
     /\ openCommits' = IF c.treeRef = <<>>
                         THEN openCommits \cup {nextID} ELSE openCommits
     /\ repos' = IF c.treeRef # <<>>
                   THEN [repos EXCEPT ![c.repo].size = @ + c.sizeChange]
                   ELSE repos
     /\ nextID' = nextID + 1
     /\ flush' = flushWatchPut(nextID, info)
     /\ calls' = stmWritten(
          {commitKey(nextID)}
            \cup (IF c.branch # "" THEN {branchKey(c.repo, c.branch)} ELSE {})
            \cup (IF c.treeRef # <<>> THEN {repoKey(c.repo)} ELSE {}),
          [calls EXCEPT ![i] = Idle])
     /\ last' = Returned(opName(c), "")
     /\ UNCHANGED <<repoRefCounts, scratch, finishOK, db, treeCache, sub,
                    commitWatch, done, delivered>>

\* ------------------------------------------------------------------ files
\* deleteFile of a file of a commit given by its ID, up to its check that
\* the commit is open
deleteFileInspect(i, repo, commitID, path) ==
  LET id == inspectCommit(repo, IDRef(commitID))
      err == IF id = NoCommit THEN "commit not found"
             ELSE IF commits[id].finished THEN "commit finished"
             ELSE ""
  IN /\ FreeSlot(i)
     /\ UNCHANGED <<store, nextID, finishOK, db, treeCache, subVars>>
     /\ IF err = ""
          THEN /\ calls' = [calls EXCEPT ![i] =
                    [op |-> "deleteFile", pc |-> "put", commit |-> id,
                     path |-> path]]
               /\ UNCHANGED last
          ELSE /\ last' = Returned("deleteFile", err)
               /\ UNCHANGED calls

\* deleteFile's etcdClient.Put of the tombstone
deleteFilePut(i) ==
  /\ calls[i].op = "deleteFile" /\ calls[i].pc = "put"
  /\ UNCHANGED <<repos, repoRefCounts, commits, branches, openCommits, nextID,
                 finishOK, db, treeCache, subVars>>
  /\ scratch' = Append(scratch,
       [commit |-> calls[i].commit, path |-> calls[i].path,
        tombstone |-> TRUE, records |-> <<>>])
  /\ calls' = [calls EXCEPT ![i] = Idle]
  /\ last' = Returned("deleteFile", "")

\* getTreeForFile's inspectCommit of the commit of the file, by the handler
\* c: getTreeForCommit of a finished commit is next, and the read of the
\* scratch keys of an open one
getTreeForFile(c) ==
  LET id == inspectCommit(c.repo, IDRef(c.src))
  IN IF id = NoCommit THEN Return(c.op, "commit not found")
     ELSE IF commits[id].finished
       THEN getTreeForCommit([c EXCEPT !.commitInfo = commits[id]], id)
     ELSE [c EXCEPT !.pc = "scratch", !.commitInfo = commits[id]]

\* getTreeForFile's read of the scratch keys under the prefix of the file
getTreeForFileScratch(i) ==
  LET c == calls[i]
  IN /\ c.op \in {"copyFile", "getFile"} /\ c.pc = "scratch"
     /\ proceed(i, getTreeForCommit(
                     [c EXCEPT !.resp = scratchGetFile(c.src, c.srcPath)],
                     c.commitInfo.parent))
     /\ UNCHANGED <<store, nextID, finishOK, db, treeCache, subVars>>

\* The error of deleteFile, called by copyFile with overwrite
copyFileDeleteErr(repo, id) ==
  IF inspectCommit(repo, IDRef(id)) = NoCommit THEN "commit not found"
  ELSE IF commits[id].finished THEN "commit finished"
  ELSE ""

\* copyFile to a commit given by its ID, up to its first read of etcd: the
\* inspectCommit of deleteFile with overwrite, and the one of getTreeForFile
\* without
copyFileStart(c, overwrite) ==
  IF ~overwrite THEN getTreeForFile(c)
  ELSE IF copyFileDeleteErr(c.repo, c.commit) # ""
    THEN Return("copyFile", copyFileDeleteErr(c.repo, c.commit))
  ELSE [c EXCEPT !.pc = "tombstone"]

\* The handler of a copyFile call
copyFileCall(repo, src, srcPath, id, dstPath) ==
  [op |-> "copyFile", pc |-> "file", repo |-> repo, src |-> src,
   srcPath |-> srcPath, commit |-> id, path |-> dstPath,
   commitInfo |-> <<>>, resp |-> <<>>, treeOf |-> NoCommit,
                   treeRead |-> EmptyTree,
   nodes |-> <<>>, pending |-> {}, err |-> ""]

copyFile(i, repo, src, srcPath, id, dstPath, overwrite) ==
  /\ FreeSlot(i)
  /\ proceed(i, copyFileStart(copyFileCall(repo, src, srcPath, id, dstPath),
                              overwrite))
  /\ UNCHANGED <<store, nextID, finishOK, db, treeCache, subVars>>

\* copyFile with overwrite: deleteFile's etcdClient.Put of the tombstone
copyFileDelete(i) ==
  LET c == calls[i]
  IN /\ c.op = "copyFile" /\ c.pc = "tombstone"
     /\ scratch' = Append(scratch,
          [commit |-> c.commit, path |-> c.path, tombstone |-> TRUE,
           records |-> <<>>])
     /\ calls' = [calls EXCEPT ![i] = [c EXCEPT !.pc = "file"]]
     /\ UNCHANGED <<repos, repoRefCounts, commits, branches, openCommits,
                    nextID, last, finishOK, db, treeCache, subVars>>

\* copyFile with overwrite: getTreeForFile's inspectCommit of the source
copyFileInspect(i) ==
  LET c == calls[i]
  IN /\ c.op = "copyFile" /\ c.pc = "file"
     /\ proceed(i, getTreeForFile(c))
     /\ UNCHANGED <<store, nextID, finishOK, db, treeCache, subVars>>

\* The scratch key a goroutine of copyFile writes for the file node at rel
copyFileKey(c, rel) ==
  IF rel = <<>>
    THEN [commit |-> c.commit, path |-> c.path, tombstone |-> FALSE,
          records |-> copyFileRecords(c.nodes[rel])]
    ELSE [commit |-> c.commit, path |-> c.path, child |-> rel,
          tombstone |-> FALSE, records |-> copyFileRecords(c.nodes[rel])]

\* A goroutine of copyFile: the records of one file node are written only if
\* openCommits holds the commit; eg.Wait returns when the last one has
\* returned, with the first error
copyFilePut(i, rel) ==
  LET c == calls[i]
      err == IF c.commit \in openCommits THEN "" ELSE "commit is not open"
      first == IF c.err # "" THEN c.err ELSE err
  IN /\ c.op = "copyFile" /\ c.pc = "put"
     /\ rel \in c.pending
     /\ scratch' = IF err = "" THEN Append(scratch, copyFileKey(c, rel))
                               ELSE scratch
     /\ proceed(i, IF c.pending = {rel} THEN Return("copyFile", first)
                   ELSE [c EXCEPT !.pending = @ \ {rel}, !.err = first])
     /\ UNCHANGED <<repos, repoRefCounts, commits, branches, openCommits,
                    nextID, finishOK, db, treeCache, subVars>>

\* getFile, inspectFile, listFile, globFile and diffFile of a file of a
\* commit given by its ID, up to getTreeForFile's inspectCommit; they read
\* the tree getTreeForFile returns
getFile(i, repo, id, path) ==
  /\ FreeSlot(i)
  /\ proceed(i, getTreeForFile(
                  [op |-> "getFile", pc |-> "file", repo |-> repo, src |-> id,
                   srcPath |-> path, commitInfo |-> <<>>, resp |-> <<>>,
                   treeOf |-> NoCommit,
                   treeRead |-> EmptyTree]))
  /\ UNCHANGED <<store, nextID, finishOK, db, treeCache, subVars>>

\* --------------------------------------------------------------- finishing
\* finishCommit of a commit given by its ID, up to its check that the
\* commit is not finished
finishCommitInspect(i, repo, commitID) ==
  LET id == inspectCommit(repo, IDRef(commitID))
      err == IF id = NoCommit THEN "commit not found"
             ELSE IF commits[id].finished THEN "already finished"
             ELSE ""
  IN /\ FreeSlot(i)
     /\ UNCHANGED <<store, nextID, finishOK, db, treeCache, subVars>>
     /\ IF err = ""
          THEN /\ calls' = [calls EXCEPT ![i] =
                    [op |-> "finishCommit", pc |-> "prefix", repo |-> repo,
                     commit |-> id, commitInfo |-> commits[id], resp |-> <<>>,
                     sizeChange |-> 0, before |-> scratchKeys(id),
                     treeOf |-> NoCommit,
                   treeRead |-> EmptyTree]]
               /\ UNCHANGED last
          ELSE /\ last' = Returned("finishCommit", err)
               /\ UNCHANGED calls

\* finishCommit's scratchCommitPrefix: inspectCommit of the commit
finishCommitPrefix(i) ==
  LET c == calls[i]
  IN /\ c.op = "finishCommit" /\ c.pc = "prefix"
     /\ proceed(i, IF inspectCommit(c.repo, IDRef(c.commit)) = NoCommit
                     THEN Return("finishCommit", "commit not found")
                     ELSE [c EXCEPT !.pc = "read"])
     /\ UNCHANGED <<store, nextID, finishOK, db, treeCache, subVars>>

\* finishCommitRead, had it deleted the scratch space once it was read
finishCommitReadClearing(i) ==
  LET c == calls[i]
  IN /\ c.op = "finishCommit" /\ c.pc = "read"
     /\ proceed(i, getTreeForCommit([c EXCEPT !.resp = scratchGet(c.commit)],
                                    c.commitInfo.parent))
     /\ scratch' = scratchDelete(c.commit)
     /\ UNCHANGED <<repos, repoRefCounts, commits, branches, openCommits,
                    nextID, finishOK, db, treeCache, subVars>>

\* finishCommit's read of the scratch keys of the commit; getTreeForCommit
\* of the parent is next
finishCommitRead(i) ==
  LET c == calls[i]
  IN /\ c.op = "finishCommit" /\ c.pc = "read"
     /\ proceed(i, getTreeForCommit([c EXCEPT !.resp = scratchGet(c.commit)],
                                    c.commitInfo.parent))
     /\ UNCHANGED <<store, nextID, finishOK, db, treeCache, subVars>>

\* The error of finishCommit's transaction, had it not deleted the commit
\* from openCommits
finishCommitErrUnchecked(id, repo) ==
  IF repo \notin DOMAIN repos THEN "not found" ELSE ""

\* The error finishCommit's transaction ends with ("" for nil)
finishCommitErr(id, repo) ==
  IF id \notin openCommits THEN "could not confirm that commit is open"
  ELSE IF repo \notin DOMAIN repos THEN "not found"
  ELSE ""

\* finishCommit's transaction, had it also moved the branches whose head is
\* the parent on to the commit it finishes
finishCommitSTMAdvancing(i) ==
  LET id == calls[i].commit
      info == calls[i].commitInfo
      err == finishCommitErr(id, info.repo)
  IN /\ calls[i].op = "finishCommit" /\ calls[i].pc = "stm"
     /\ IF err = ""
          THEN /\ commits' = colPut(commits, id, info)
               /\ commitWatch' = watchCommitPut(id, TRUE)
               /\ openCommits' = openCommits \ {id}
               /\ repos' = [repos EXCEPT ![info.repo].size =
                              @ + calls[i].sizeChange]
               /\ branches' = [k \in DOMAIN branches |->
                                 IF branches[k] = info.parent
                                   THEN id ELSE branches[k]]
               /\ flush' = flushWatchPut(id, info)
               /\ calls' = stmWritten(
                    {commitKey(id), repoKey(info.repo)},
                    [calls EXCEPT ![i] = [@ EXCEPT !.pc = "clear"]])
               /\ UNCHANGED last
          ELSE /\ calls' = [calls EXCEPT ![i] = Idle]
               /\ last' = Returned("finishCommit", err)
               /\ UNCHANGED <<commits, commitWatch, openCommits, repos,
                              branches, flush>>
     /\ UNCHANGED <<repoRefCounts, scratch, nextID, finishOK, db, treeCache,
                    sub, branchWatch, done, delivered>>

\* finishCommit's transaction
finishCommitSTM(i) ==
  LET id == calls[i].commit
      info == calls[i].commitInfo
      err == finishCommitErr(id, info.repo)
  IN /\ calls[i].op = "finishCommit" /\ calls[i].pc = "stm"
     /\ UNCHANGED <<repoRefCounts, branches, scratch, nextID, finishOK, db,
                    treeCache, sub, branchWatch, done, delivered>>
     /\ IF err = ""
          THEN /\ commits' = colPut(commits, id, info)
               /\ commitWatch' = watchCommitPut(id, TRUE)
               /\ flush' = flushWatchPut(id, info)
               /\ openCommits' = openCommits \ {id}
               /\ repos' = [repos EXCEPT ![info.repo].size =
                              @ + calls[i].sizeChange]
               /\ calls' = stmWritten(
                    {commitKey(id), repoKey(info.repo)},
                    [calls EXCEPT ![i] = [@ EXCEPT !.pc = "clear"]])
               /\ UNCHANGED last
          ELSE /\ calls' = [calls EXCEPT ![i] = Idle]
               /\ last' = Returned("finishCommit", err)
               /\ UNCHANGED <<commits, commitWatch, openCommits, repos, flush>>

\* finishCommit's delete of the scratch space, and its return
finishCommitClear(i) ==
  /\ calls[i].op = "finishCommit" /\ calls[i].pc = "clear"
  /\ UNCHANGED <<repos, repoRefCounts, commits, branches, openCommits, nextID,
                 subVars>>
  /\ scratch' = scratchDelete(calls[i].commit)
  /\ finishOK' = finishOK \cup {calls[i].commit}
  /\ UNCHANGED db
  /\ UNCHANGED treeCache
  /\ calls' = [calls EXCEPT ![i] = Idle]
  /\ last' = Returned("finishCommit", "")

\* --------------------------------------------------------------- branches
\* setBranch to a commit given by its ID, up to the end of its
\* inspectCommit, which replaces commit.ID
setBranchInspect(i, repo, commitID, name) ==
  LET id == inspectCommit(repo, IDRef(commitID))
  IN /\ FreeSlot(i)
     /\ proceed(i, IF id = NoCommit
                     THEN Return("setBranch", "commit not found")
                     ELSE [op |-> "setBranch", pc |-> "stm", repo |-> repo,
                           commit |-> id, name |-> name])
     /\ UNCHANGED <<store, nextID, finishOK, db, treeCache, subVars>>

\* The error setBranch's transaction ends with ("" for nil): the one of
\* commits.Get
setBranchErr(repo, id) ==
  IF id \notin commitsOf(repo) THEN "not found" ELSE ""

\* setBranch's transaction
setBranch(i) ==
  LET c == calls[i]
      err == setBranchErr(c.repo, c.commit)
  IN /\ c.op = "setBranch" /\ c.pc = "stm"
     /\ IF err = ""
          THEN /\ branches' = colPut(branches, <<c.repo, c.name>>, c.commit)
               /\ branchWatch' = watchBranchPut(c.repo, c.name, c.commit)
               /\ calls' = stmWritten({branchKey(c.repo, c.name)},
                                      [calls EXCEPT ![i] = Idle])
          ELSE /\ calls' = [calls EXCEPT ![i] = Idle]
               /\ UNCHANGED <<branches, branchWatch>>
     /\ last' = Returned("setBranch", err)
     /\ UNCHANGED <<repos, repoRefCounts, commits, openCommits, scratch, nextID,
                    finishOK, db, treeCache, sub, commitWatch, done, delivered,
                    flush>>

\* The error deleteBranch ends with ("" for nil)
deleteBranchErr(repo, name) ==
  IF <<repo, name>> \notin DOMAIN branches THEN "not found" ELSE ""

deleteBranch(repo, name) ==
  LET err == deleteBranchErr(repo, name)
  IN /\ IF err = ""
          THEN /\ branches' = colDelete(branches, <<repo, name>>)
               /\ branchWatch' = watchBranchDelete(repo, name)
               /\ calls' = stmWritten({branchKey(repo, name)}, calls)
          ELSE UNCHANGED <<branches, branchWatch, calls>>
     /\ last' = Returned("deleteBranch", err)
     /\ UNCHANGED <<repos, repoRefCounts, commits, openCommits, scratch, nextID,
                    finishOK, db, treeCache, sub, commitWatch, done, delivered,
                    flush>>

\* ---------------------------------------------------------------- deletion
\* deleteCommit of a commit given by its ID, up to its check that the commit
\* is not finished; `heads` are the branches of the loop still to come,
\* `moved` the ones it has changed, `setting` the one setBranch has been
\* called for
deleteCommitInspect(i, repo, commitID) ==
  LET id == inspectCommit(repo, IDRef(commitID))
      err == IF id = NoCommit THEN "commit not found"
             ELSE IF commits[id].finished THEN "cannot delete finished commit"
             ELSE ""
  IN /\ FreeSlot(i)
     /\ IF err = ""
          THEN /\ calls' = [calls EXCEPT ![i] =
                    [op |-> "deleteCommit", pc |-> "prefix", commit |-> id,
                     commitInfo |-> commits[id], heads |-> {}, moved |-> {},
                     setting |-> ""]]
               /\ UNCHANGED last
          ELSE /\ last' = Returned("deleteCommit", err)
               /\ UNCHANGED calls
     /\ UNCHANGED <<store, nextID, finishOK, db, treeCache, subVars>>

\* deleteCommit's scratchCommitPrefix: inspectCommit of the commit
deleteCommitPrefix(i) ==
  LET c == calls[i]
  IN /\ c.op = "deleteCommit" /\ c.pc = "prefix"
     /\ proceed(i, IF inspectCommit(c.commitInfo.repo, IDRef(c.commit)) = NoCommit
                     THEN Return("deleteCommit", "commit not found")
                     ELSE [c EXCEPT !.pc = "clear"])
     /\ UNCHANGED <<store, nextID, finishOK, db, treeCache, subVars>>

\* deleteCommit's delete of the scratch space
deleteCommitClear(i) ==
  LET id == calls[i].commit
  IN /\ calls[i].op = "deleteCommit" /\ calls[i].pc = "clear"
     /\ scratch' = scratchDelete(id)
     /\ calls' = [calls EXCEPT ![i] = [@ EXCEPT !.pc = "list"]]
     /\ UNCHANGED <<repos, repoRefCounts, commits, branches, openCommits, nextID,
                    last, finishOK, db, treeCache, subVars>>

\* deleteCommit's listBranch: the branches whose head is the commit
deleteCommitList(i) ==
  LET repo == calls[i].commitInfo.repo
  IN /\ calls[i].op = "deleteCommit" /\ calls[i].pc = "list"
     /\ calls' = [calls EXCEPT ![i] =
          [@ EXCEPT !.pc = "branch",
             !.heads = {k[2] : k \in {b \in branchesOf(repo) :
                                        branches[b] = calls[i].commit}}]]
     /\ UNCHANGED <<store, nextID, last, finishOK, db, treeCache, subVars>>

\* deleteCommit's loop, for a commit with a parent: the inspectCommit of the
\* setBranch it calls
deleteCommitBranchInspect(i, name) ==
  LET c == calls[i]
  IN /\ c.op = "deleteCommit" /\ c.pc = "branch"
     /\ name \in c.heads
     /\ c.setting = ""
     /\ c.commitInfo.parent # NoCommit
     /\ proceed(i, IF inspectCommit(c.commitInfo.repo,
                                    IDRef(c.commitInfo.parent)) = NoCommit
                     THEN Return("deleteCommit", "commit not found")
                     ELSE [c EXCEPT !.setting = name])
     /\ UNCHANGED <<store, nextID, finishOK, db, treeCache, subVars>>

\* deleteCommit's loop: the transaction of setBranch sets the branch to the
\* parent; deleteBranch deletes it when the commit has none
deleteCommitBranch(i, name) ==
  LET repo == calls[i].commitInfo.repo
      parent == calls[i].commitInfo.parent
      err == IF parent # NoCommit THEN setBranchErr(repo, parent)
                                  ELSE deleteBranchErr(repo, name)
  IN /\ calls[i].op = "deleteCommit" /\ calls[i].pc = "branch"
     /\ name \in calls[i].heads
     /\ IF parent # NoCommit THEN calls[i].setting = name
                             ELSE calls[i].setting = ""
     /\ IF err # ""
          THEN /\ calls' = [calls EXCEPT ![i] = Idle]
               /\ last' = Returned("deleteCommit", err)
               /\ UNCHANGED <<branches, branchWatch>>
          ELSE /\ calls' = stmWritten(
                    {branchKey(repo, name)},
                    [calls EXCEPT ![i] =
                       [@ EXCEPT !.heads = @ \ {name},
                                 !.moved = @ \cup {name},
                                 !.setting = ""]])
               /\ UNCHANGED last
               /\ IF parent # NoCommit
                    THEN /\ branches' = colPut(branches, <<repo, name>>, parent)
                         /\ branchWatch' = watchBranchPut(repo, name, parent)
                    ELSE /\ branches' = colDelete(branches, <<repo, name>>)
                         /\ branchWatch' = watchBranchDelete(repo, name)
     /\ UNCHANGED <<repos, repoRefCounts, commits, openCommits, scratch, nextID,
                    finishOK, db, treeCache, sub, commitWatch, done, delivered,
                    flush>>

\* The error deleteCommit's transaction ends with ("" for nil)
deleteCommitErr(id, repo) ==
  IF repo \notin DOMAIN repos THEN "not found"
  ELSE IF id \notin commitsOf(repo) THEN "not found"
  ELSE ""

\* deleteCommit's transaction: the commit is removed, its size subtracted
deleteCommitSTM(i) ==
  LET id == calls[i].commit
      info == calls[i].commitInfo
      err == deleteCommitErr(id, info.repo)
  IN /\ calls[i].op = "deleteCommit" /\ calls[i].pc = "branch"
     /\ calls[i].heads = {}
     /\ IF err = ""
          THEN /\ repos' = [repos EXCEPT ![info.repo].size = @ - info.size]
               /\ commits' = colDelete(commits, id)
               /\ commitWatch' = watchCommitDelete(id)
               /\ calls' = stmWritten({repoKey(info.repo), commitKey(id)},
                                      [calls EXCEPT ![i] = Idle])
          ELSE /\ calls' = [calls EXCEPT ![i] = Idle]
               /\ UNCHANGED <<repos, commits, commitWatch>>
     /\ last' = Returned("deleteCommit", err)
     /\ UNCHANGED <<repoRefCounts, branches, openCommits, scratch, nextID,
                    finishOK, db, treeCache, sub, branchWatch, done, delivered,
                    flush>>

\* ------------------------------------------------------------------- init

Init ==
  /\ repos = [r \in {} |-> [prov |-> EmptyBag, size |-> 0]]
  /\ repoRefCounts = [r \in {} |-> 0]
  /\ commits = [c \in {} |-> 0]
  /\ branches = [k \in {} |-> NoCommit]
  /\ openCommits = {}
  /\ scratch = <<>>
  /\ nextID = 1
  /\ calls = [i \in 1..MaxCalls |-> Idle]
  /\ last = Returned("none", "")
  /\ finishOK = {}
  /\ db = NoDB
  /\ treeCache = NoTrees
  /\ sub = SubIdle
  /\ branchWatch = <<>>
  /\ commitWatch = <<>>
  /\ done = FALSE
  /\ delivered = <<>>
  /\ flush = FlushIdle

\* ------------------------------------------------- the repo manager alone
\* The provenance lists given to updateRepo: every name at most once, or one
\* name twice
ProvLists ==
  {SetToBag(S) : S \in SUBSET ManagedRepos}
    \cup {[r \in {p} |-> 2] : p \in ManagedRepos}

\* The refcounts the model follows
RefCountsBounded ==
  \A r \in DOMAIN repoRefCounts : repoRefCounts[r] \in (0 - MaxRef)..MaxRef

\* The steps of the calls of updateRepo
UpdateRepo ==
  \E i \in 1..SeqCalls :
    \/ \E repo \in ManagedRepos, provenance \in ProvLists :
         updateRepoRun(i, repo, provenance)
    \/ updateRepoListGet(i)
    \/ updateRepoList(i)
    \/ updateRepoRetry(i)
    \/ updateRepoCommit(i)

NextRepo ==
  \/ \E repo \in ManagedRepos, provenance \in SUBSET ManagedRepos :
       createRepo(repo, provenance)
  \/ UpdateRepo /\ RefCountsBounded'
  \/ \E repo \in ManagedRepos, force \in BOOLEAN :
       deleteRepo(repo, force) /\ RefCountsBounded'
  \/ \E i \in 1..SeqCalls, branch \in BranchNames :
       /\ nextID + Cardinality({j \in 1..SeqCalls : calls[j].op = "makeCommit"})
            <= MaxRepoCommits
       /\ makeCommitRun(i, CommitRepo, NoRef, branch, {}, <<>>)
  \/ \E i \in 1..SeqCalls : makeCommitRetry(i)
  \/ \E i \in 1..SeqCalls : makeCommitCommit(i)

SpecRepo == Init /\ [][NextRepo]_vars

\* C1: every existing repo's Provenance is transitively closed: for every
\* existing repo S in R.Provenance, S.Provenance is part of R.Provenance.
C1_ProvenanceClosed ==
  \A R \in DOMAIN repos :
    \A S \in provenanceOf(repos[R]) \cap DOMAIN repos :
      provenanceOf(repos[S]) \subseteq provenanceOf(repos[R])

\* C2: for every existing repo R, repoRefCounts[R] is the number of other
\* existing repos whose Provenance contains R.
C2_RefCountConsistent ==
  \A R \in DOMAIN repos :
    /\ R \in DOMAIN repoRefCounts
    /\ repoRefCounts[R] =
         Cardinality({S \in DOMAIN repos \ {R} : R \in provenanceOf(repos[S])})

\* C3: a deleteRepo(R, force = false) step taken while repoRefCounts[R] > 0
\* returns an error and leaves the repos, every refcount, the commits and
\* the branches as they were.
C3_DeleteRefused ==
  [][\A R \in RepoNames :
       (/\ R \in DOMAIN repoRefCounts
        /\ repoRefCounts[R] > 0
        /\ deleteRepo(R, FALSE))
       => (/\ last'.err # ""
           /\ UNCHANGED <<repos, repoRefCounts, commits, branches>>)]_vars

\* A refused deleteRepo has returned, of a repo with commits and a branch
\* that is the provenance of another repo.
C3_Witness ==
  /\ last = Returned("deleteRepo", "cannot delete the provenance of other repos")
  /\ \E R \in DOMAIN repos :
       /\ R \in DOMAIN repoRefCounts
       /\ repoRefCounts[R] > 0
       /\ commitsOf(R) # {}
       /\ branchesOf(R) # {}
       /\ \E S \in DOMAIN repos \ {R} : R \in provenanceOf(repos[S])

\* ------------------------------------------------------------ subscription
\* branches.WatchOne(branch): the watcher starts with the key's present value
WatchOneBranch(repo, branch) ==
  IF <<repo, branch>> \in DOMAIN branches
    THEN <<[type |-> "put", commit |-> branches[<<repo, branch>>]]>>
    ELSE <<>>
\* commits.WatchOne(commit.ID)
WatchOneCommit(repo, id) ==
  IF id \in commitsOf(repo)
    THEN <<[type |-> "put", commit |-> id, finished |-> commits[id].finished]>>
    ELSE <<>>

\* subscribeCommit up to the start of its goroutine
subscribeCommit(repo, branch, from) ==
  /\ sub.pc = "idle"
  /\ sub' = [SubIdle EXCEPT !.pc = "list", !.repo = repo, !.branch = branch,
                            !.from = from]
  /\ branchWatch' = WatchOneBranch(repo, branch)
  /\ UNCHANGED <<store, nextID, calls, last, finishOK, db, treeCache, commitWatch, done,
                 delivered, flush>>

\* The goroutine calls listCommit(repo, branch, from, 0), which reads etcd
\* once for the repo, once for `from`, once for the branch and once for every
\* commit of the list.  An error of listCommit is a NotFound one here, which
\* the goroutine skips: it goes on without a commit to send.
subListFailed == [sub EXCEPT !.pc = "waitBranch", !.cursor = NoCommit,
                             !.listed = <<>>]

\* The goroutine once listCommit has returned the CommitInfos, newest first:
\* the finished ones, oldest first, are the ones to send
subListed(infos) ==
  LET finished == SelectSeq(Reverse(infos), LAMBDA info : info.finished)
  IN [sub EXCEPT !.pending = finished, !.cursor = NoCommit, !.listed = <<>>,
                 !.pc = IF finished = <<>> THEN "waitBranch" ELSE "emit"]

\* listCommit's inspectRepo
subListCommit ==
  /\ sub.pc = "list"
  /\ sub' = IF sub.repo \notin DOMAIN repos THEN subListFailed
            ELSE [sub EXCEPT !.pc = IF sub.from # NoCommit THEN "listFrom"
                                                           ELSE "listTo"]
  /\ UNCHANGED <<store, nextID, calls, last, finishOK, db, treeCache, branchWatch,
                 commitWatch, done, delivered, flush>>

\* listCommit's inspectCommit of `from`
subListFrom ==
  /\ sub.pc = "listFrom"
  /\ sub' = IF inspectCommit(sub.repo, IDRef(sub.from)) = NoCommit
              THEN subListFailed
              ELSE [sub EXCEPT !.pc = "listTo"]
  /\ UNCHANGED <<store, nextID, calls, last, finishOK, db, treeCache, branchWatch,
                 commitWatch, done, delivered, flush>>

\* listCommit's inspectCommit of `to`, the branch: its transaction, which
\* reads the head
subListTo ==
  /\ sub.pc = "listTo"
  /\ sub' = [sub EXCEPT !.pc = "listToGet",
               !.cursor = inspectCommitBranch(sub.repo,
                                              BranchRef(sub.branch)).id]
  /\ UNCHANGED <<store, nextID, calls, last, finishOK, db, treeCache, branchWatch,
                 commitWatch, done, delivered, flush>>

\* listCommit's inspectCommit of `to`: commits.Get of the head; the cursor of
\* the loop starts at the commit of the record
subListToGet ==
  LET id == inspectCommitGet(sub.repo, IDRef(sub.cursor)).id
  IN /\ sub.pc = "listToGet"
     /\ sub' = IF id = NoCommit THEN subListFailed
               ELSE IF id = sub.from THEN subListed(<<>>)
               ELSE [sub EXCEPT !.pc = "listGet", !.cursor = id]
     /\ UNCHANGED <<store, nextID, calls, last, finishOK, db, treeCache, branchWatch,
                    commitWatch, done, delivered, flush>>

\* listCommit's loop: commits.Get of the cursor, which moves on to the
\* ParentCommit; the loop ends at `from` and after the commit without parent
subListGet ==
  LET id == sub.cursor
      infos == Append(sub.listed,
                      [commit |-> id, finished |-> commits[id].finished])
  IN /\ sub.pc = "listGet"
     /\ sub' = IF id \notin commitsOf(sub.repo) THEN subListFailed
               ELSE IF commits[id].parent = NoCommit
                         \/ commits[id].parent = sub.from
                 THEN subListed(infos)
               ELSE [sub EXCEPT !.cursor = commits[id].parent,
                                !.listed = infos]
     /\ UNCHANGED <<store, nextID, calls, last, finishOK, db, treeCache, branchWatch,
                    commitWatch, done, delivered, flush>>

\* The goroutine has returned: its watchers are closed
subReturn ==
  /\ sub' = [sub EXCEPT !.pc = "done", !.pending = <<>>,
                        !.cursor = NoCommit, !.listed = <<>>]
  /\ branchWatch' = <<>>
  /\ commitWatch' = <<>>
  /\ UNCHANGED <<store, nextID, calls, last, finishOK, db, treeCache, done, delivered, flush>>

\* select { case stream <- listed commit ; case <-done }
subEmit ==
  /\ sub.pc = "emit"
  /\ \/ /\ delivered' = Append(delivered, Head(sub.pending))
        /\ sub' = [sub EXCEPT !.seen = @ \cup {Head(sub.pending).commit},
                              !.pending = Tail(@),
                              !.pc = IF Tail(sub.pending) = <<>>
                                       THEN "waitBranch" ELSE "emit"]
        /\ UNCHANGED <<store, nextID, calls, last, finishOK, db, treeCache, branchWatch,
                       commitWatch, done, flush>>
     \/ /\ done
        /\ subReturn

\* select { case event <- newCommitWatcher.Watch() ; case <-done }
subWaitBranch ==
  /\ sub.pc = "waitBranch"
  /\ \/ /\ branchWatch # <<>>
        /\ branchWatch' = Tail(branchWatch)
        /\ sub' = IF /\ Head(branchWatch).type = "put"
                     /\ Head(branchWatch).commit \notin sub.seen
                     /\ Head(branchWatch).commit # sub.from
                    THEN [sub EXCEPT !.pc = "watchCommit",
                                     !.commit = Head(branchWatch).commit]
                    ELSE sub
        /\ UNCHANGED <<store, nextID, calls, last, finishOK, db, treeCache, commitWatch, done,
                       delivered, flush>>
     \/ /\ done
        /\ subReturn

\* commits.WatchOne(commit.ID)
subWatchCommit ==
  /\ sub.pc = "watchCommit"
  /\ commitWatch' = WatchOneCommit(sub.repo, sub.commit)
  /\ sub' = [sub EXCEPT !.pc = "waitCommit"]
  /\ UNCHANGED <<store, nextID, calls, last, finishOK, db, treeCache, branchWatch, done,
                 delivered, flush>>

\* event := <-commitInfoWatcher.Watch()
subWaitCommit ==
  /\ sub.pc = "waitCommit"
  /\ commitWatch # <<>>
  /\ IF Head(commitWatch).type = "delete"
       THEN /\ sub' = [sub EXCEPT !.pc = "waitBranch", !.commit = NoCommit]
            /\ commitWatch' = <<>>
       ELSE IF Head(commitWatch).finished
         THEN /\ sub' = [sub EXCEPT !.pc = "send"]
              /\ commitWatch' = <<>>
         ELSE /\ sub' = sub
              /\ commitWatch' = Tail(commitWatch)
  /\ UNCHANGED <<store, nextID, calls, last, finishOK, db, treeCache, branchWatch, done,
                 delivered, flush>>

\* select { case stream <- finished commit ; case <-done }, then back to the
\* branch
subSend ==
  /\ sub.pc = "send"
  /\ \/ /\ delivered' = Append(delivered,
                               [commit |-> sub.commit, finished |-> TRUE])
        /\ sub' = [sub EXCEPT !.seen = @ \cup {sub.commit},
                              !.pc = "waitBranch", !.commit = NoCommit]
     \/ /\ done
        /\ sub' = [sub EXCEPT !.pc = "waitBranch", !.commit = NoCommit]
        /\ UNCHANGED delivered
  /\ UNCHANGED <<store, nextID, calls, last, finishOK, db, treeCache, branchWatch,
                 commitWatch, done, flush>>

\* commitStream.Close
Close ==
  /\ sub.pc # "idle"
  /\ ~done
  /\ done' = TRUE
  /\ UNCHANGED <<store, nextID, calls, last, finishOK, db, treeCache, sub, branchWatch,
                 commitWatch, delivered, flush>>

\* ------------------------------------------------------ the commit engine
\* More bounds: the commits of the specifications with two handlers in
\* flight; the handlers in flight and the scratch keys where calls follow one
\* another; the events a watcher has not read yet
MaxRaceCommits == 2
SeqScratch == 1
MaxWatch == 2

\* The references handlers are called with
CommitRefs ==
  {IDRef(c) : c \in DOMAIN commits} \cup {BranchRef(b) : b \in BranchNames}
\* The trees buildCommit is given
BuildTrees == {[p \in {"/x"} |-> [objects |-> <<"h1">>, size |-> 1]]}

\* The state after createRepo(CommitRepo)
InitEngine ==
  /\ repos = [r \in {CommitRepo} |-> [prov |-> EmptyBag, size |-> 0]]
  /\ repoRefCounts = [r \in {CommitRepo} |-> 0]
  /\ commits = [c \in {} |-> 0]
  /\ branches = [k \in {} |-> NoCommit]
  /\ openCommits = {}
  /\ scratch = <<>>
  /\ nextID = 1
  /\ calls = [i \in 1..MaxCalls |-> Idle]
  /\ last = Returned("none", "")
  /\ finishOK = {}
  /\ db = NoDB
  /\ treeCache = NoTrees
  /\ sub = SubIdle
  /\ branchWatch = <<>>
  /\ commitWatch = <<>>
  /\ done = FALSE
  /\ delivered = <<>>
  /\ flush = FlushIdle

\* The calls of the API, with at most max commits ever made, at most n
\* handlers in flight and at most k scratch keys
MakeCommitRoom(max, n) ==
  nextID + Cardinality({j \in 1..n : calls[j].op = "makeCommit"}) <= max
StartCommit(max, n) ==
  \E i \in 1..n :
    /\ MakeCommitRoom(max, n)
    /\ \E parent \in {NoRef} \cup CommitRefs, branch \in {""} \cup BranchNames :
         makeCommitRun(i, CommitRepo, parent, branch, {}, <<>>)
BuildCommit(max, n) ==
  \E i \in 1..n :
    /\ MakeCommitRoom(max, n)
    /\ \E parent \in {NoRef} \cup CommitRefs, branch \in {""} \cup BranchNames,
          tree \in BuildTrees :
         makeCommitRun(i, CommitRepo, parent, branch, {}, <<tree>>)
\* startCommit on a branch, the head as parent
StartOnBranch(max, n) ==
  \E i \in 1..n :
    /\ MakeCommitRoom(max, n)
    /\ \E branch \in BranchNames :
         makeCommitRun(i, CommitRepo, NoRef, branch, {}, <<>>)
\* The steps of the calls of makeCommit after the reads of the first run
MakeCommit(n) ==
  \E i \in 1..n :
    \/ makeCommitInspect(i)
    \/ makeCommitInspectGet(i)
    \/ makeCommitCommit(i)
\* The same where no call names its parent by a branch
MakeCommitByID(n) ==
  \E i \in 1..n :
    \/ makeCommitInspectGet(i)
    \/ makeCommitCommit(i)
MakeCommitRetry(n) == \E i \in 1..n : makeCommitRetry(i)
\* The steps of getTreeForCommit
GetTreeForCommit(n) ==
  \E i \in 1..n :
    \/ getTreeForCommitCache(i)
    \/ getTreeForCommitInspect(i)
    \/ getTreeForCommitGet(i)
    \/ getTreeForCommitObject(i)
\* The same where the CommitInfo of every parent has a nil Tree
GetTreeForCommitNil(n) ==
  \E i \in 1..n :
    \/ getTreeForCommitCache(i)
    \/ getTreeForCommitInspect(i)
    \/ getTreeForCommitGet(i)
FinishCommit(n) ==
  \E i \in 1..n :
    \/ \E c \in DOMAIN commits : finishCommitInspect(i, CommitRepo, c)
    \/ finishCommitPrefix(i)
    \/ finishCommitRead(i)
    \/ finishCommitSTM(i)
    \/ finishCommitClear(i)
DeleteCommit(n) ==
  \E i \in 1..n :
    \/ \E c \in DOMAIN commits : deleteCommitInspect(i, CommitRepo, c)
    \/ deleteCommitPrefix(i)
    \/ deleteCommitClear(i)
    \/ deleteCommitList(i)
    \/ \E name \in BranchNames : deleteCommitBranchInspect(i, name)
    \/ \E name \in BranchNames : deleteCommitBranch(i, name)
    \/ deleteCommitSTM(i)
SetBranch(n) ==
  \E i \in 1..n :
    \/ \E c \in DOMAIN commits, name \in BranchNames :
         setBranchInspect(i, CommitRepo, c, name)
    \/ setBranch(i)
DeleteBranch == \E name \in BranchNames : deleteBranch(CommitRepo, name)
DeleteRepo == \E force \in BOOLEAN : deleteRepo(CommitRepo, force)
PutFile(k) ==
  /\ Len(scratch) < k
  /\ \E c \in DOMAIN commits, path \in FilePaths, objects \in PutObjectSplit :
       putFile(c, path, objects)
\* The file nodes copyFile has still to write
copyFilePending(i) ==
  IF calls[i].op = "copyFile" THEN calls[i].pending ELSE {}
CopyFile(n, k) ==
  \E i \in 1..n :
    \/ \E src \in DOMAIN commits, c \in DOMAIN commits, path \in FilePaths,
          overwrite \in BOOLEAN :
         copyFile(i, CommitRepo, src, path, c, path, overwrite)
    \/ Len(scratch) < k /\ copyFileDelete(i)
    \/ copyFileInspect(i)
    \/ Len(scratch) < k /\ \E rel \in copyFilePending(i) : copyFilePut(i, rel)
GetFile(n) ==
  \E i \in 1..n :
    \E c \in DOMAIN commits, path \in FilePaths : getFile(i, CommitRepo, c, path)
GetTreeForFile(n) == \E i \in 1..n : getTreeForFileScratch(i)
DeleteFile(n, k) ==
  \E i \in 1..n :
    \/ \E c \in DOMAIN commits, path \in FilePaths :
         deleteFileInspect(i, CommitRepo, c, path)
    \/ /\ Len(scratch) < k
       /\ deleteFilePut(i)

\* Every call of the commit engine, one handler after the other
Next ==
  \/ StartCommit(MaxRaceCommits, SeqCalls)
  \/ BuildCommit(MaxRaceCommits, SeqCalls)
  \/ MakeCommit(SeqCalls)
  \/ MakeCommitRetry(SeqCalls)
  \/ GetTreeForCommit(SeqCalls)
  \/ FinishCommit(SeqCalls)
  \/ DeleteCommit(SeqCalls)
  \/ SetBranch(SeqCalls)
  \/ DeleteBranch
  \/ DeleteRepo
  \/ PutFile(SeqScratch)
  \/ CopyFile(SeqCalls, SeqScratch)
  \/ GetTreeForFile(SeqCalls)
  \/ DeleteFile(SeqCalls, SeqScratch)

Spec == InitEngine /\ [][Next]_vars

\* The commit graph, handlers racing
NextCommit ==
  \/ StartCommit(MaxRaceCommits, MaxCalls)
  \/ BuildCommit(MaxRaceCommits, MaxCalls)
  \/ MakeCommit(MaxCalls)
  \/ MakeCommitRetry(MaxCalls)
  \/ GetTreeForCommit(MaxCalls)
  \/ FinishCommit(MaxCalls)
  \/ DeleteCommit(MaxCalls)
  \/ SetBranch(MaxCalls)
  \/ DeleteBranch

SpecCommit == InitEngine /\ [][NextCommit]_vars

\* The write path, handlers racing
NextWrite ==
  \/ StartOnBranch(MaxRepoCommits, MaxCalls)
  \/ \E i \in 1..MaxCalls : makeCommitCommit(i)
  \/ GetTreeForCommit(MaxCalls)
  \/ FinishCommit(MaxCalls)
  \/ PutFile(MaxScratch)
  \/ CopyFile(MaxCalls, MaxScratch)
  \/ GetTreeForFile(MaxCalls)
  \/ DeleteFile(MaxCalls, MaxScratch)

SpecWrite == InitEngine /\ [][NextWrite]_vars

\* A subscription and the calls that move a branch
SubNext ==
  \/ subListCommit
  \/ subListFrom
  \/ subListTo
  \/ subListToGet
  \/ subListGet
  \/ subEmit
  \/ subWaitBranch
  \/ subWatchCommit
  \/ subWaitCommit
  \/ subSend

NextSub ==
  \/ \E branch \in BranchNames, from \in {NoCommit} \cup DOMAIN commits :
       subscribeCommit(CommitRepo, branch, from)
  \/ SubNext
  \/ Close
  \/ StartCommit(MaxRaceCommits, SeqCalls)
  \/ BuildCommit(MaxRaceCommits, SeqCalls)
  \/ Len(branchWatch) < MaxWatch /\ MakeCommit(SeqCalls)
  \/ GetTreeForCommit(SeqCalls)
  \/ FinishCommit(SeqCalls)
  \/ Len(branchWatch) < MaxWatch /\ DeleteCommit(SeqCalls)
  \/ Len(branchWatch) < MaxWatch /\ SetBranch(SeqCalls)
  \/ Len(branchWatch) < MaxWatch /\ DeleteBranch

SpecSub == InitEngine /\ [][NextSub]_vars

\* ------------------------------------------------------- the commit graph
\* C4: every finished commit with a parent has a parent that exists and is
\* finished.
C4_ParentFinished ==
  \A c \in DOMAIN commits :
    (commits[c].finished /\ commits[c].parent # NoCommit)
      => /\ commits[c].parent \in commitsOf(commits[c].repo)
         /\ commits[commits[c].parent].finished

\* The head of a branch, NoCommit when the branch does not exist
headOf(bs, b) ==
  IF <<CommitRepo, b>> \in DOMAIN bs THEN bs[<<CommitRepo, b>>] ELSE NoCommit

\* Commit a is on the ParentCommit chain of commit id, in the commits cs
RECURSIVE inParentChain(_, _, _)
inParentChain(cs, id, a) ==
  IF id = NoCommit \/ id \notin DOMAIN cs THEN FALSE
  ELSE IF cs[id].parent = a THEN TRUE
  ELSE inParentChain(cs, cs[id].parent, a)

\* A step of PutFile, CopyFile, DeleteFile or FinishCommit
WriteTraffic ==
  \/ \E c \in DOMAIN commits, path \in FilePaths, objects \in PutObjectSplit :
       putFile(c, path, objects)
  \/ CopyFile(MaxCalls, MaxScratch + 1)
  \/ GetTreeForFile(MaxCalls)
  \/ DeleteFile(MaxCalls, MaxScratch + 1)
  \/ FinishCommit(MaxCalls)
  \/ \E i \in 1..MaxCalls :
       /\ calls[i].op \in {"copyFile", "finishCommit"}
       /\ \/ getTreeForCommitCache(i)
          \/ getTreeForCommitInspect(i)
          \/ getTreeForCommitGet(i)
          \/ getTreeForCommitObject(i)

C6_ScratchEmpty == \A c \in finishOK : scratchKeys(c) = <<>>

\* The object hashes of the records of scratch keys, in order
RECURSIVE recordHashes(_)
recordHashes(kvs) ==
  IF kvs = <<>> THEN <<>>
  ELSE [i \in 1..Len(Head(kvs).records) |-> Head(kvs).records[i].hash]
         \o recordHashes(Tail(kvs))

\* The tree of the record of a commit, the empty tree for no commit
treeOfCommit(id) == IF id = NoCommit THEN EmptyTree ELSE commits[id].tree

\* Sequence s starts sequence t
IsPrefix(s, t) == Len(s) <= Len(t) /\ SubSeq(t, 1, Len(s)) = s

\* The file at path p of a tree, empty when the tree has none
fileAt(tree, p) ==
  IF p \in DOMAIN tree THEN tree[p] ELSE [objects |-> <<>>, size |-> 0]

\* C7: when finishCommit has written the finished tree, for every path that
\* no DeleteFile was applied to: the objects of the writes that completed
\* before finishCommit was called follow the parent's objects in the file in
\* the order the writes completed, and if no other write was applied the
\* file holds just these objects and its size is the parent's plus the sizes
\* written.
C7_WriteOrder ==
  \A i \in 1..MaxCalls, p \in FilePaths :
    (/\ calls[i].op = "finishCommit"
     /\ calls[i].pc = "clear"
     /\ calls[i].commit \in DOMAIN commits)
    => LET atP(kvs) == SelectSeq(kvs, LAMBDA kv : kv.path = p)
           before == atP(calls[i].before)
           resp == atP(calls[i].resp)
           info == commits[calls[i].commit]
           parent == fileAt(treeOfCommit(info.parent), p)
           file == fileAt(info.tree, p)
       IN (\A k \in 1..Len(resp) : ~resp[k].tombstone)
          => /\ IsPrefix(parent.objects \o recordHashes(before), file.objects)
             /\ resp = before
                => /\ file.objects = parent.objects \o recordHashes(before)
                   /\ file.size = parent.size
                                    + objectsSize(recordHashes(before))

\* finishCommit has written the tree of a commit that two writes of
\* different objects to one path had completed on before it was called.
C7_Witness ==
  \E i \in 1..MaxCalls :
    /\ calls[i].op = "finishCommit"
    /\ calls[i].pc = "clear"
    /\ calls[i].resp = calls[i].before
    /\ Len(calls[i].before) = 2
    /\ ~calls[i].before[1].tombstone
    /\ ~calls[i].before[2].tombstone
    /\ calls[i].before[1].path = calls[i].before[2].path
    /\ recordHashes(<<calls[i].before[1]>>) # recordHashes(<<calls[i].before[2]>>)
    /\ Len(commits[calls[i].commit].tree[calls[i].before[1].path].objects) = 3

\* ------------------------------------------------------- the subscription
\* The commits on the subscribed branch after `from`: the ones reached from
\* commit id through ParentCommit without passing `from`
RECURSIVE afterFrom(_, _)
afterFrom(id, from) ==
  IF id = NoCommit \/ id = from \/ id \notin DOMAIN commits THEN {}
  ELSE {id} \cup afterFrom(commits[id].parent, from)

deliveredIDs == {delivered[i].commit : i \in 1..Len(delivered)}

\* C8: once the subscription, never closed, has nothing left to read and no
\* call is in flight, every finished commit on the branch after `from` has
\* been delivered.
C8_AllDelivered ==
  (/\ sub.pc = "waitBranch"
   /\ branchWatch = <<>>
   /\ ~done
   /\ \A i \in 1..MaxCalls : calls[i] = Idle)
  => \A c \in afterFrom(headOf(branches, sub.branch), sub.from) :
       commits[c].finished => c \in deliveredIDs

\* C9: on the stream no commit is delivered twice, `from` is not delivered,
\* every delivered CommitInfo is finished, and of two delivered commits one
\* of which is an ancestor of the other the ancestor comes first.
C9_StreamOrder ==
  /\ \A i, j \in 1..Len(delivered) :
       i < j => /\ delivered[i].commit # delivered[j].commit
                /\ ~inParentChain(commits, delivered[i].commit,
                                  delivered[j].commit)
  /\ \A i \in 1..Len(delivered) :
       /\ delivered[i].commit # sub.from
       /\ delivered[i].finished

\* C10: after Close the goroutine has returned or can take a step.
C10_CloseTerminates == done => (sub.pc = "done" \/ ENABLED SubNext)

\* ------------------------------------------------------------ flushCommit
\* Bounds of the flush specification: the commits ever made
MaxFlushCommits == 3

\* flushRepo: the repos that have repo in their Provenance
flushRepo(repo) == {r \in DOMAIN repos : repo \in provenanceOf(repos[r])}

\* The repos of a set as a list, in the order of their keys
inKeyOrder(S) == SelectSeq(<<"a", "b", "c">>, LAMBDA r : r \in S)

\* The commits of a set as a sequence, in the order of their IDs
RECURSIVE inOrder(_)
inOrder(S) ==
  IF S = {} THEN <<>>
  ELSE LET m == CHOOSE x \in S : \A y \in S : x <= y
       IN <<m>> \o inOrder(S \ {m})

\* WatchByIndex(ProvenanceIndex, c) on the commits of repo r: the commits
\* that are there when the watch is opened come first, as Put events
WatchByIndex(c, r) ==
  LET there == inOrder({d \in commitsOf(r) : c \in commits[d].prov})
  IN [i \in 1..Len(there) |-> flushEvent(there[i], commits[there[i]])]

\* flushCommit returns an error
flushCommitFailed(err) ==
  /\ flush' = FlushIdle
  /\ last' = Returned("flushCommit", err)

\* flushCommit has its repos: without one the stream is closed at once and
\* returned, else the watchers are opened one after the other
flushCommitRepos(rs) ==
  IF rs = <<>>
    THEN /\ flush' = [flush EXCEPT !.pc = "closed", !.repos = rs, !.n = 0,
                                   !.repoCounts = [r \in {} |-> 0],
                                   !.downstream = <<>>]
         /\ last' = Returned("flushCommit", "")
    ELSE /\ flush' = [flush EXCEPT !.pc = "watch", !.repos = rs, !.n = 1,
                                   !.repoCounts = [r \in {} |-> 0],
                                   !.downstream = <<>>]
         /\ UNCHANGED last

\* flushCommit(fromCommits, toRepos), up to the loop of inspectCommit
flushCommit(fromCommits, toRepos) ==
  /\ flush.pc = "idle"
  /\ IF fromCommits = <<>>
       THEN flushCommitFailed("fromCommits cannot be empty")
       ELSE /\ flush' = [FlushIdle EXCEPT !.pc = "inspect", !.from = fromCommits,
                                          !.toRepos = toRepos, !.n = 1]
            /\ UNCHANGED last
  /\ UNCHANGED <<store, nextID, calls, finishOK, db, treeCache, sub, branchWatch,
                 commitWatch, done, delivered>>

\* flushCommit's inspectCommit of one commit of fromCommits; after the last
\* one toRepos, when given, are the repos
flushCommitInspect ==
  LET c == flush.from[flush.n]
  IN /\ flush.pc = "inspect"
     /\ IF inspectCommit(c.repo, IDRef(c.id)) = NoCommit
          THEN flushCommitFailed("commit not found")
        ELSE IF flush.n < Len(flush.from)
          THEN flush' = [flush EXCEPT !.n = @ + 1] /\ UNCHANGED last
        ELSE IF flush.toRepos # <<>> THEN flushCommitRepos(flush.toRepos[1])
        ELSE flush' = [flush EXCEPT !.pc = "flushRepo", !.n = 1]
               /\ UNCHANGED last
     /\ UNCHANGED <<store, nextID, calls, finishOK, db, treeCache, sub, branchWatch,
                    commitWatch, done, delivered>>

\* flushCommit's flushRepo of the repo of one commit of fromCommits: the
\* repos it returns are counted and, when new, added to downstreamRepos;
\* after the last one the repos counted len(fromCommits) times are the repos
flushCommitRepo ==
  LET rs == flushRepo(flush.from[flush.n].repo)
      counts == [r \in DOMAIN flush.repoCounts \cup rs |->
                   (IF r \in DOMAIN flush.repoCounts THEN flush.repoCounts[r]
                                                     ELSE 0)
                     + (IF r \in rs THEN 1 ELSE 0)]
      downstream == flush.downstream
                      \o inKeyOrder(rs \ {flush.downstream[j] :
                                            j \in 1..Len(flush.downstream)})
  IN /\ flush.pc = "flushRepo"
     /\ IF flush.n < Len(flush.from)
          THEN /\ flush' = [flush EXCEPT !.n = @ + 1, !.repoCounts = counts,
                                         !.downstream = downstream]
               /\ UNCHANGED last
          ELSE flushCommitRepos(
                 SelectSeq(downstream,
                           LAMBDA r : counts[r] = Len(flush.from)))
     /\ UNCHANGED <<store, nextID, calls, finishOK, db, treeCache, sub, branchWatch,
                    commitWatch, done, delivered>>

\* The indices of the commit and of the repo of the n-th watcher flushCommit
\* opens
flushWatcher(n) ==
  <<((n - 1) \div Len(flush.repos)) + 1, ((n - 1) % Len(flush.repos)) + 1>>

\* flushCommit's WatchByIndex for one commit and one repo, whose goroutine
\* starts; after the last one the forwarding goroutine starts and the stream
\* is returned
flushWatchOpen ==
  LET k == flushWatcher(flush.n)
      w == [evs |-> WatchByIndex(flush.from[k[1]].id, flush.repos[k[2]]),
            held |-> <<>>]
      all == flush.n = Len(flush.from) * Len(flush.repos)
  IN /\ flush.pc = "watch"
     /\ flush' = [flush EXCEPT !.watch = colPut(@, k, w),
                               !.n = IF all THEN 0 ELSE @ + 1,
                               !.pc = IF all THEN "run" ELSE "watch"]
     /\ last' = IF all THEN Returned("flushCommit", "") ELSE last
     /\ UNCHANGED <<store, nextID, calls, finishOK, db, treeCache, sub, branchWatch,
                    commitWatch, done, delivered>>

\* WatchByIndex returns an error: flushCommit returns it, and the goroutines
\* of the watchers opened before go on
flushWatchOpenFail ==
  /\ flush.pc = "watch"
  /\ flush' = [flush EXCEPT !.pc = "failed", !.n = 0]
  /\ last' = Returned("flushCommit", "watch error")
  /\ UNCHANGED <<store, nextID, calls, finishOK, db, treeCache, sub, branchWatch,
                 commitWatch, done, delivered>>

\* The goroutine of the watcher k takes a Put event and counts the commit
\* under commitCountsLock; when the count is len(fromCommits) it has the
\* CommitInfo to send.  Its select takes an event whether or not done is
\* closed.
flushWatch(k) ==
  LET ev == Head(flush.watch[k].evs)
      n == IF ev.commit \in DOMAIN flush.counts
             THEN flush.counts[ev.commit] + 1 ELSE 1
  IN /\ k \in DOMAIN flush.watch
     /\ flush.watch[k].held = <<>>
     /\ flush.watch[k].evs # <<>>
     /\ flush' = [flush EXCEPT
                    !.watch[k] = [evs |-> Tail(flush.watch[k].evs),
                                  held |-> IF n = Len(flush.from) THEN <<ev>>
                                                                  ELSE <<>>],
                    !.counts = colPut(@, ev.commit, n)]
     /\ UNCHANGED <<store, nextID, calls, last, finishOK, db, treeCache, sub, branchWatch,
                    commitWatch, done, delivered>>

\* A CommitEvent with Err set has no Value
FlushErrEvent ==
  [commit |-> NoCommit, repo |-> "", prov |-> {}, finished |-> FALSE]

\* The goroutine of the watcher k sends what it holds on the buffered
\* stream, which blocks while the stream is full; after an error the
\* goroutine returns and closes its watcher
flushWatchSend(k) ==
  /\ k \in DOMAIN flush.watch
  /\ flush.watch[k].held # <<>>
  /\ Len(flush.stream) < Len(flush.repos)
  /\ flush' = [flush EXCEPT
                 !.watch = IF flush.watch[k].held[1] = FlushErrEvent
                             THEN colDelete(@, k)
                             ELSE [@ EXCEPT ![k].held = <<>>],
                 !.stream = Append(@, flush.watch[k].held[1])]
  /\ UNCHANGED <<store, nextID, calls, last, finishOK, db, treeCache, sub, branchWatch,
                 commitWatch, done, delivered>>

\* The goroutine of the watcher k takes <-done, in the select on its watcher
\* or in the select of a send on stream: it returns and closes its watcher
flushWatchReturn(k) ==
  /\ flush.pc \in {"closed", "cancelled"}
  /\ k \in DOMAIN flush.watch
  /\ flush' = [flush EXCEPT !.watch = colDelete(@, k)]
  /\ UNCHANGED <<store, nextID, calls, last, finishOK, db, treeCache, sub, branchWatch,
                 commitWatch, done, delivered>>

\* The forwarding goroutine, step by step.  Its select takes an event from
\* stream (whether or not respDone is closed: select chooses among the ready
\* cases); flush.ev is the event it then holds
flushReceive ==
  /\ flush.pc = "run"
  /\ flush.ev = <<>>
  /\ flush.stream # <<>>
  /\ flush' = [flush EXCEPT !.stream = Tail(@), !.ev = <<Head(flush.stream)>>]
  /\ UNCHANGED <<store, nextID, calls, last, finishOK, db, treeCache, sub, branchWatch,
                 commitWatch, done, delivered>>

\* respStream <- ev: respStream has no buffer, the send is outside the select
\* and completes when the consumer receives, which it does until it has
\* called Close; after len(repos) events respStream and done are closed
flushSend ==
  /\ flush.pc = "run"
  /\ flush.ev # <<>>
  /\ ~flush.respDone
  /\ flush' = [flush EXCEPT !.ev = <<>>,
                            !.out = Append(@, flush.ev[1]),
                            !.pc = IF Len(flush.out) + 1 = Len(flush.repos)
                                     THEN "closed" ELSE "run"]
  /\ UNCHANGED <<store, nextID, calls, last, finishOK, db, treeCache, sub, branchWatch,
                 commitWatch, done, delivered>>

\* commitStream.Close of the stream flushCommit has returned: close(respDone)
flushCloseCall ==
  /\ flush.pc \in {"run", "closed"}
  /\ ~flush.respDone
  /\ flush' = [flush EXCEPT !.respDone = TRUE]
  /\ UNCHANGED <<store, nextID, calls, last, finishOK, db, treeCache, sub, branchWatch,
                 commitWatch, done, delivered>>

\* The forwarding goroutine's select takes <-respDone: it closes done and
\* returns
flushCancel ==
  /\ flush.pc = "run"
  /\ flush.ev = <<>>
  /\ flush.respDone
  /\ flush' = [flush EXCEPT !.pc = "cancelled"]
  /\ UNCHANGED <<store, nextID, calls, last, finishOK, db, treeCache, sub, branchWatch,
                 commitWatch, done, delivered>>

\* The state after createRepo(a), createRepo(b, [a]), createRepo(c, [b])
InitFlush ==
  /\ repos = [r \in RepoNames |->
                [prov |-> SetToBag(IF r = "a" THEN {}
                                   ELSE IF r = "b" THEN {"a"} ELSE {"a", "b"}),
                 size |-> 0]]
  /\ repoRefCounts = [r \in RepoNames |->
                        IF r = "a" THEN 2 ELSE IF r = "b" THEN 1 ELSE 0]
  /\ commits = [c \in {} |-> 0]
  /\ branches = [k \in {} |-> NoCommit]
  /\ openCommits = {}
  /\ scratch = <<>>
  /\ nextID = 1
  /\ calls = [i \in 1..MaxCalls |-> Idle]
  /\ last = Returned("none", "")
  /\ finishOK = {}
  /\ db = NoDB
  /\ treeCache = NoTrees
  /\ sub = SubIdle
  /\ branchWatch = <<>>
  /\ commitWatch = <<>>
  /\ done = FALSE
  /\ delivered = <<>>
  /\ flush = FlushIdle

\* startCommit and buildCommit in any repo, with provenance, off the branches
StartWithProvenance(max, n) ==
  \E i \in 1..n :
    /\ MakeCommitRoom(max, n)
    /\ \E repo \in RepoNames, provenance \in SUBSET DOMAIN commits :
         makeCommitRun(i, repo, NoRef, "", provenance, <<>>)
BuildWithProvenance(max, n) ==
  \E i \in 1..n :
    /\ MakeCommitRoom(max, n)
    /\ \E repo \in RepoNames, provenance \in SUBSET DOMAIN commits :
         makeCommitRun(i, repo, NoRef, "", provenance, <<EmptyTree>>)
\* finishCommit of a commit of any repo
FinishAny(n) ==
  \E i \in 1..n :
    \/ \E c \in DOMAIN commits :
         finishCommitInspect(i, commits[c].repo, c)
    \/ finishCommitPrefix(i)
    \/ finishCommitRead(i)
    \/ finishCommitSTM(i)
    \/ finishCommitClear(i)
\* The lists fromCommits of a call of flushCommit, of commits with an ID up
\* to max, and the lists toRepos, <<>> for nil
MaxFrom == 2
FlushFrom(max) ==
  {[repo |-> IF c \in DOMAIN commits THEN commits[c].repo ELSE CommitRepo,
    id |-> c] : c \in 1..max}
FlushLists(max) == UNION {[1..n -> FlushFrom(max)] : n \in 0..MaxFrom}
ToRepos == {<<>>, <<<<"c">>>>}
FlushCommit(max) ==
  \E fromCommits \in FlushLists(max), toRepos \in ToRepos :
    flushCommit(fromCommits, toRepos)
\* The steps of flushCommit up to its return
FlushCommitSteps ==
  \/ flushCommitInspect
  \/ flushCommitRepo
  \/ flushWatchOpen
FlushWatch == \E k \in DOMAIN flush.watch : flushWatch(k)
FlushWatchSend == \E k \in DOMAIN flush.watch : flushWatchSend(k)
FlushWatchReturn == \E k \in DOMAIN flush.watch : flushWatchReturn(k)

\* buildCommit in the upstream repo and startCommit in a downstream repo
\* with upstream commits as provenance
FlushUpstream(max, n) ==
  \E i \in 1..n :
    /\ MakeCommitRoom(max, n)
    /\ makeCommitRun(i, CommitRepo, NoRef, "", {}, <<EmptyTree>>)
FlushDownstream(max, n) ==
  \E i \in 1..n :
    /\ MakeCommitRoom(max, n)
    /\ \E repo \in RepoNames \ {CommitRepo},
          provenance \in SUBSET {c \in DOMAIN commits :
                                   commits[c].repo = CommitRepo} :
         makeCommitRun(i, repo, NoRef, "", provenance, <<>>)
\* flushCommit with toRepos = nil
FlushToAll(max) ==
  \E fromCommits \in FlushLists(max) : flushCommit(fromCommits, <<>>)

\* A flush and the calls that make downstream commits
NextFlush ==
  \/ FlushUpstream(MaxFlushCommits, SeqCalls)
  \/ FlushDownstream(MaxFlushCommits, SeqCalls)
  \/ \E i \in 1..SeqCalls : makeCommitCommit(i)
  \/ FinishAny(SeqCalls)
  \/ FlushToAll(MaxFlushCommits)
  \/ FlushCommitSteps
  \/ FlushWatch
  \/ FlushWatchSend
  \/ FlushWatchReturn
  \/ flushReceive
  \/ flushSend

SpecFlush == InitFlush /\ [][NextFlush]_vars

\* C11: every commit the flush stream has delivered holds every commit of
\* fromCommits in its Provenance, and its repo is downstream of the repo of
\* every commit of fromCommits.
C11_FlushSound ==
  \A i \in 1..Len(flush.out) :
    \A n \in 1..Len(flush.from) :
      /\ flush.from[n].id \in flush.out[i].prov
      /\ flush.from[n].repo \in provenanceOf(repos[flush.out[i].repo])

\* C12: the commits delivered by one flush stream are of pairwise distinct
\* repos, there are at most len(repos) of them, and the stream is closed
\* once len(repos) have been delivered.
C12_OnePerRepo ==
  /\ \A i, j \in 1..Len(flush.out) :
       i # j => flush.out[i].repo # flush.out[j].repo
  /\ Len(flush.out) <= Len(flush.repos)
  /\ (flush.pc = "run" => Len(flush.out) < Len(flush.repos))

\* --------------------------------------------------- finishing and deleting
\* One commit's life, handlers racing: finishCommit, deleteCommit and the
\* writes to the scratch space
NextFinish ==
  \/ StartOnBranch(MaxRaceCommits, MaxCalls)
  \/ MakeCommitByID(MaxCalls)
  \/ MakeCommitRetry(MaxCalls)
  \/ GetTreeForCommit(MaxCalls)
  \/ FinishCommit(MaxCalls)
  \/ DeleteCommit(MaxCalls)
  \/ PutFile(SeqScratch)
  \/ DeleteFile(MaxCalls, SeqScratch)

SpecFinish == InitEngine /\ [][NextFinish]_vars

\* C13: a commit record that has Finished set is there after every step of
\* FinishCommit, PutFile, DeleteFile and DeleteCommit calls as it was before
\* (Tree, SizeBytes, Finished, ParentCommit and Provenance), a finishCommit
\* call only starts on a commit that is not finished, and the transaction of
\* a finishCommit call only succeeds on a commit that is not finished: every
\* other finishCommit call ends with an error.
C13_FinishedImmutable ==
  [][/\ \A c \in DOMAIN commits :
          commits[c].finished
            => (c \in DOMAIN commits' /\ commits'[c] = commits[c])
     /\ \A i \in 1..MaxCalls :
          (/\ calls'[i].op = "finishCommit"
           /\ calls[i].op = "idle" \/ calls'[i].pc = "clear"
           /\ calls'[i] # calls[i]
           /\ calls'[i].commit \in DOMAIN commits)
            => ~commits[calls'[i].commit].finished]_vars

\* C14: when the transaction of a deleteCommit call runs on a commit whose
\* record has Finished set, the record stays and the call returns an error.
C14_FinishedNotDeleted ==
  [][\A i \in 1..MaxCalls :
       (/\ calls[i].op = "deleteCommit"
        /\ calls[i].commit \in DOMAIN commits
        /\ commits[calls[i].commit].finished
        /\ deleteCommitSTM(i))
       => (/\ calls[i].commit \in DOMAIN commits'
           /\ last'.err # "")]_vars

\* ------------------------------------------- writes addressed by commit ID
\* putFile and copyFile to a commit given by its UUID, whether or not a
\* commit of that ID is still there
PutFileByID(k) ==
  /\ Len(scratch) < k
  /\ \E c \in 1..(nextID - 1), path \in FilePaths, objects \in PutObjectSplit :
       putFile(c, path, objects)
CopyFileByID(n, k) ==
  \E i \in 1..n :
    \/ \E src \in DOMAIN commits, c \in 1..(nextID - 1), path \in FilePaths,
          overwrite \in BOOLEAN :
         copyFile(i, CommitRepo, src, path, c, path, overwrite)
    \/ Len(scratch) < k /\ copyFileDelete(i)
    \/ copyFileInspect(i)
    \/ Len(scratch) < k /\ \E rel \in copyFilePending(i) : copyFilePut(i, rel)

\* Commits that are made, finished and deleted, and the writes to them
NextOpen ==
  \/ StartCommit(MaxRaceCommits, SeqCalls)
  \/ BuildCommit(MaxRaceCommits, SeqCalls)
  \/ MakeCommit(SeqCalls)
  \/ MakeCommitRetry(SeqCalls)
  \/ GetTreeForCommit(SeqCalls)
  \/ FinishCommit(SeqCalls)
  \/ DeleteCommit(SeqCalls)
  \/ DeleteRepo
  \/ PutFileByID(MaxScratch)
  \/ CopyFileByID(SeqCalls, MaxScratch)
  \/ GetFile(SeqCalls)
  \/ GetTreeForFile(SeqCalls)

SpecOpen == InitEngine /\ [][NextOpen]_vars

\* C15: putFile and copyFile write a scratch key only for a commit that
\* exists and is not finished: a step that adds a key of records adds it for
\* such a commit, every other call fails and writes nothing.
C15_WriteRefused ==
  [][(/\ Len(scratch') > Len(scratch)
      /\ ~scratch'[Len(scratch')].tombstone)
     => LET c == scratch'[Len(scratch')].commit
        IN /\ c \in DOMAIN commits
           /\ ~commits[c].finished]_vars

\* ------------------------------------------------------- commit references
\* A commit ID as a handler is given it: a base without separator (a commit
\* UUID or a branch name, as IDRef or BranchRef) followed by a suffix, a
\* string that is empty or begins with a separator
MaxSuffix == 3
Separators == {"^", "~"}
Digits == {"0", "1", "2"}
SuffixChars == Separators \cup Digits \cup {"-"}
RECURSIVE Strings(_)
Strings(n) ==
  IF n = 0 THEN {<<>>}
  ELSE Strings(n - 1) \cup
       {Append(t, ch) : t \in {u \in Strings(n - 1) : Len(u) = n - 1},
                        ch \in SuffixChars}
Suffixes ==
  {<<>>} \cup {<<sep>> \o t : sep \in Separators, t \in Strings(MaxSuffix - 1)}

DigitValue(ch) == IF ch = "0" THEN 0 ELSE IF ch = "1" THEN 1 ELSE 2
\* The value of a string of digits, base 10
RECURSIVE digitsValue(_, _)
digitsValue(str, n) ==
  IF str = <<>> THEN n
  ELSE digitsValue(Tail(str), n * 10 + DigitValue(Head(str)))
\* strconv.Atoi: an optional sign and at least one digit, nothing else
Atoi(str) ==
  LET body == IF str # <<>> /\ Head(str) \in {"-", "+"} THEN Tail(str) ELSE str
  IN IF body = <<>> \/ \E i \in 1..Len(body) : body[i] \notin Digits
       THEN [ok |-> FALSE, val |-> 0]
       ELSE [ok |-> TRUE,
             val |-> IF Head(str) = "-" THEN 0 - digitsValue(body, 0)
                                        ELSE digitsValue(body, 0)]

\* parseCommitID of base \o suffix: the depth of the ancestor, and whether
\* the ID component is the base (else it is the whole string)
parseCommitID(suffix) ==
  IF suffix = <<>> THEN [base |-> TRUE, anc |-> 0]
  ELSE LET sep == Head(suffix)
           strAfterSep == Tail(suffix)
       IN IF Atoi(strAfterSep).ok
            THEN [base |-> TRUE, anc |-> Atoi(strAfterSep).val]
          ELSE IF \E i \in 1..Len(strAfterSep) : strAfterSep[i] # sep
            THEN [base |-> FALSE, anc |-> 0]
          ELSE [base |-> TRUE, anc |-> Len(suffix)]

\* The reference inspectCommit looks up for base \o suffix: the base with
\* the depth parseCommitID gives, and the whole string, which is no branch
\* and no commit, when the suffix is left where it is
inspectCommitRef(base, suffix) ==
  IF parseCommitID(suffix).base
    THEN [base EXCEPT !.anc = parseCommitID(suffix).anc]
    ELSE IDRef(NoCommit)

\* What the handler InspectCommit returns
inspectCommitReturn(c, err, id) ==
  [op |-> "return", err |-> err, resp |-> id, base |-> c.base,
   suffix |-> c.suffix]

\* The handler of slot i goes on as `next`, or returns what `next` holds
inspectCommitProceed(i, next) ==
  IF next.op = "return"
    THEN /\ calls' = [calls EXCEPT ![i] = Idle]
         /\ last' = [next EXCEPT !.op = "inspectCommit"]
    ELSE /\ calls' = [calls EXCEPT ![i] = next]
         /\ UNCHANGED last

\* The handler InspectCommit with base \o suffix, up to the end of the
\* transaction of inspectCommit.  With a depth below 0 the loop over the
\* ancestry does not run and `commitInfo.Commit` is a nil pointer
\* dereference
inspectCommitCall(i, repo, base, suffix) ==
  LET ref == inspectCommitRef(base, suffix)
      c == [op |-> "inspectCommit", pc |-> "get", repo |-> repo,
            base |-> base, suffix |-> suffix,
            inspect |-> inspectCommitBranch(repo, ref)]
  IN /\ FreeSlot(i)
     /\ inspectCommitProceed(i,
          IF ref.anc < 0
            THEN inspectCommitReturn(c, "nil pointer dereference", NoCommit)
            ELSE c)
     /\ UNCHANGED <<store, nextID, finishOK, db, treeCache, subVars>>

\* The handler InspectCommit: commits.Get in the loop of inspectCommit
inspectCommitLoop(i) ==
  LET c == calls[i]
      turn == inspectCommitGet(c.repo, c.inspect)
  IN /\ c.op = "inspectCommit" /\ c.pc = "get"
     /\ inspectCommitProceed(i,
          IF ~turn.done THEN [c EXCEPT !.inspect = turn.ref]
          ELSE IF turn.id = NoCommit
            THEN inspectCommitReturn(c, "commit not found", NoCommit)
          ELSE inspectCommitReturn(c, "", turn.id))
     /\ UNCHANGED <<store, nextID, finishOK, db, treeCache, subVars>>

\* The handler InspectCommit: nothing is written
InspectCommit(n) ==
  \E i \in 1..n :
    \/ \E base \in {IDRef(c) : c \in 1..MaxRaceCommits}
                     \cup {BranchRef(b) : b \in BranchNames},
          suffix \in Suffixes :
         inspectCommitCall(i, CommitRepo, base, suffix)
    \/ inspectCommitLoop(i)

\* Finished commits, branches, and the references to them
NextInspect ==
  \/ BuildCommit(MaxRaceCommits, SeqCalls)
  \/ MakeCommit(SeqCalls)
  \/ GetTreeForCommit(SeqCalls)
  \/ SetBranch(SeqCalls)
  \/ InspectCommit(SeqCalls)

SpecInspect == InitEngine /\ [][NextInspect]_vars

\* The commit reached from id by following ParentCommit n times, NoCommit
\* when there is none
RECURSIVE nthParent(_, _)
nthParent(id, n) ==
  IF id = NoCommit \/ id \notin commitsOf(CommitRepo) \/ n < 0 THEN NoCommit
  ELSE IF n = 0 THEN id
  ELSE nthParent(commits[id].parent, n - 1)

\* The depth a suffix denotes: its integer, else the number of separators
suffixDepth(suffix) ==
  IF suffix = <<>> THEN 0
  ELSE IF Atoi(Tail(suffix)).ok THEN Atoi(Tail(suffix)).val
  ELSE Len(suffix)

\* C16: InspectCommit of a reference with a suffix that denotes the depth N
\* returns the commit reached by following ParentCommit N times from the
\* commit of the base (the head, for a branch), or ErrCommitNotFound when
\* there is no such commit; it has no other outcome.
C16_InspectOutcome ==
  [][(/\ last'.op = "inspectCommit"
      /\ \/ last' # last
         \/ \E i \in 1..SeqCalls :
              calls[i].op = "inspectCommit" /\ calls'[i] = Idle
      /\ \/ last'.suffix = <<>>
         \/ Atoi(Tail(last'.suffix)).ok
         \/ \A i \in 1..Len(last'.suffix) :
              last'.suffix[i] = Head(last'.suffix))
     => LET X == IF last'.base.kind = "branch"
                   THEN headOf(branches, last'.base.name) ELSE last'.base.id
            want == nthParent(X, suffixDepth(last'.suffix))
        IN IF want = NoCommit
             THEN last'.err = "commit not found"
             ELSE last'.err = "" /\ last'.resp = want]_vars

\* ------------------------------------------------------------- listCommit
\* Bound of `number`
MaxNumber == 2

\* What the handler ListCommit returns
listCommitReturn(c, err, ids) == [op |-> "return", err |-> err, resp |-> ids]

\* The handler of slot i goes on as `next`, or returns what `next` holds
listCommitProceed(i, next) ==
  IF next.op = "return"
    THEN /\ calls' = [calls EXCEPT ![i] = Idle]
         /\ last' = [next EXCEPT !.op = "listCommit"]
    ELSE /\ calls' = [calls EXCEPT ![i] = next]
         /\ UNCHANGED last

\* listCommit(repo, to, from, number) with `to` given, up to its first read
\* of etcd, inspectRepo; from is NoCommit for nil.  number = 0 at the call
\* is math.MaxUint64, which the loop never counts down to 0: it is kept as
\* -1
listCommit(i, repo, to, from, number) ==
  LET c == [op |-> "listCommit",
            pc |-> IF from # NoCommit THEN "from"
                   ELSE IF to.kind = "branch" THEN "to" ELSE "toGet",
            repo |-> repo, to |-> to, from |-> from, number |-> number,
            inspect |-> to, cursor |-> NoCommit, ids |-> <<>>,
            left |-> IF number = 0 THEN 0 - 1 ELSE number]
  IN /\ FreeSlot(i)
     /\ listCommitProceed(i, IF repo \notin DOMAIN repos
                               THEN listCommitReturn(c, "not found", <<>>)
                               ELSE c)
     /\ UNCHANGED <<store, nextID, finishOK, db, treeCache, subVars>>

\* listCommit's inspectCommit of `from`, a commit ID
listCommitFrom(i) ==
  LET c == calls[i]
  IN /\ c.op = "listCommit" /\ c.pc = "from"
     /\ listCommitProceed(i,
          IF inspectCommit(c.repo, IDRef(c.from)) = NoCommit
            THEN listCommitReturn(c, "commit not found", <<>>)
            ELSE [c EXCEPT !.pc = IF c.to.kind = "branch" THEN "to"
                                                           ELSE "toGet"])
     /\ UNCHANGED <<store, nextID, finishOK, db, treeCache, subVars>>

\* listCommit's inspectCommit of `to`, a branch name: its transaction
listCommitTo(i) ==
  LET c == calls[i]
  IN /\ c.op = "listCommit" /\ c.pc = "to"
     /\ listCommitProceed(i,
          [c EXCEPT !.pc = "toGet",
                    !.inspect = inspectCommitBranch(c.repo, c.to)])
     /\ UNCHANGED <<store, nextID, finishOK, db, treeCache, subVars>>

\* listCommit's inspectCommit of `to`: commits.Get in its loop.  to.ID is
\* the ID of the record; the cursor starts there, and the loop does not run
\* when that is `from`
listCommitToGet(i) ==
  LET c == calls[i]
      turn == inspectCommitGet(c.repo, c.inspect)
  IN /\ c.op = "listCommit" /\ c.pc = "toGet"
     /\ listCommitProceed(i,
          IF ~turn.done THEN [c EXCEPT !.inspect = turn.ref]
          ELSE IF turn.id = NoCommit
            THEN listCommitReturn(c, "commit not found", <<>>)
          ELSE IF turn.id = c.from THEN listCommitReturn(c, "", <<>>)
          ELSE [c EXCEPT !.pc = "loop", !.cursor = turn.id])
     /\ UNCHANGED <<store, nextID, finishOK, db, treeCache, subVars>>

\* listCommit's loop: commits.Get of the cursor, which moves on to the
\* ParentCommit.  The error of a Get is returned without a commit; the loop
\* ends after `number` commits, before `from` and after the commit without
\* parent
listCommitGet(i) ==
  LET c == calls[i]
      id == c.cursor
      ids == Append(c.ids, id)
  IN /\ c.op = "listCommit" /\ c.pc = "loop"
     /\ listCommitProceed(i,
          IF id \notin commitsOf(c.repo)
            THEN listCommitReturn(c, "not found", <<>>)
          ELSE IF \/ c.left - 1 = 0
                  \/ commits[id].parent = NoCommit
                  \/ commits[id].parent = c.from
            THEN listCommitReturn(c, "", ids)
          ELSE [c EXCEPT !.cursor = commits[id].parent, !.ids = ids,
                         !.left = @ - 1])
     /\ UNCHANGED <<store, nextID, finishOK, db, treeCache, subVars>>

\* The handler ListCommit, one call of it at a time among the n handlers in
\* flight: nothing is written
ListCommit(n) ==
  \E i \in 1..n :
    \/ \E to \in {IDRef(c) : c \in 1..MaxRaceCommits}
                   \cup {BranchRef(b) : b \in BranchNames},
          from \in 0..MaxRaceCommits, number \in 0..MaxNumber :
         /\ \A j \in 1..n : calls[j].op # "listCommit"
         /\ listCommit(i, CommitRepo, to, from, number)
    \/ listCommitFrom(i)
    \/ listCommitTo(i)
    \/ listCommitToGet(i)
    \/ listCommitGet(i)

\* The commit graph, handlers racing, and the listing of it
NextList ==
  \/ StartOnBranch(MaxRaceCommits, MaxCalls)
  \/ BuildCommit(MaxRaceCommits, MaxCalls)
  \/ MakeCommit(MaxCalls)
  \/ MakeCommitRetry(MaxCalls)
  \/ GetTreeForCommit(MaxCalls)
  \/ FinishCommit(MaxCalls)
  \/ DeleteCommit(MaxCalls)
  \/ ListCommit(MaxCalls)

SpecList == InitEngine /\ [][NextList]_vars

\* The commits on the ParentCommit chain of id, newest first, up to the
\* root or to `from`, which is left out
RECURSIVE parentChain(_, _)
parentChain(id, from) ==
  IF id = NoCommit \/ id = from \/ id \notin commitsOf(CommitRepo) THEN <<>>
  ELSE <<id>> \o parentChain(commits[id].parent, from)

\* The first n entries of a sequence, all of them for n = 0
truncated(seq, n) ==
  IF n = 0 \/ Len(seq) <= n THEN seq ELSE SubSeq(seq, 1, n)

\* C17: ListCommit(repo, to, from, number) with `to` an existing commit and
\* `from` nil or an existing commit returns the commits of the ParentCommit
\* chain of `to`, newest first, up to the root or to `from` (left out),
\* cut to `number` entries when number > 0.  The call is one that returns
\* with `to` still the commit it has found for it.
C17_ListChain ==
  [][\A i \in 1..MaxCalls :
       (/\ calls[i].op = "listCommit"
        /\ calls[i].pc \in {"toGet", "loop"}
        /\ calls'[i] = Idle
        /\ last'.op = "listCommit"
        /\ inspectCommit(CommitRepo, calls[i].to) # NoCommit
        /\ inspectCommit(CommitRepo, calls[i].to) = calls[i].inspect.id
        /\ calls[i].from # NoCommit => calls[i].from \in commitsOf(CommitRepo))
       => /\ last'.err = ""
          /\ last'.resp =
               truncated(parentChain(inspectCommit(CommitRepo, calls[i].to),
                                     calls[i].from),
                         calls[i].number)]_vars

\* ------------------------------------------------------------- makeCommit
\* C18: when the closure of a startCommit or buildCommit call reads its
\* parent, the head of the branch taken for an empty parent, and the parent
\* is a commit that is not finished, the call returns an error, and the
\* commits, openCommits, the repos, the branches and the next commit ID are
\* left as they were.
C18_OpenParentRefused ==
  [][\A i \in 1..MaxCalls :
       (/\ calls[i].op = "makeCommit"
        /\ calls[i].pc = "parentGet"
        /\ LET id == inspectCommit(calls[i].repo, calls[i].inspect)
           IN id # NoCommit /\ ~commits[id].finished
        /\ makeCommitInspectGet(i))
       => (/\ calls'[i] = Idle
           /\ last'.op \in {"startCommit", "buildCommit"}
           /\ last'.err # ""
           /\ UNCHANGED <<commits, openCommits, repos, branches,
                          nextID>>)]_vars

\* startCommit on a branch whose head is open has been refused: the head is
\* still the open commit and no other commit has been made
C18_Witness ==
  /\ last = Returned("startCommit", "parent commit has not been finished")
  /\ \E b \in BranchNames :
       /\ headOf(branches, b) # NoCommit
       /\ headOf(branches, b) \in openCommits
       /\ headOf(branches, b) \in DOMAIN commits
       /\ ~commits[headOf(branches, b)].finished
       /\ nextID = headOf(branches, b) + 1

\* startCommit on a branch, without parent, in the steps of its transaction
StartCommitSTM(max, n) ==
  \E i \in 1..n :
    \/ /\ MakeCommitRoom(max, n)
       /\ \E branch \in BranchNames :
            makeCommitRun(i, CommitRepo, NoRef, branch, {}, <<>>)
    \/ makeCommitInspect(i)
    \/ makeCommitInspectGet(i)
    \/ makeCommitRetry(i)
    \/ makeCommitCommit(i)

\* startCommit calls racing on a branch with the other calls that move it
NextRetry ==
  \/ StartCommitSTM(MaxCommits, MaxCalls)
  \/ BuildCommit(MaxCommits, MaxCalls)
  \/ GetTreeForCommit(MaxCalls)
  \/ SetBranch(MaxCalls)
  \/ DeleteCommit(MaxCalls)

SpecRetry == InitEngine /\ [][NextRetry]_vars

\* C19: the commit that startCommit with an empty parent and branch b makes
\* has as ParentCommit the head b has in the state in which its transaction
\* commits (none if b does not exist).
C19_ParentIsHead ==
  [][\A i \in 1..MaxCalls :
       (/\ calls[i].op = "makeCommit"
        /\ calls[i].given = NoRef
        /\ calls[i].branch # ""
        /\ nextID' # nextID
        /\ makeCommitCommit(i))
       => commits'[nextID].parent = headOf(branches, calls[i].branch)]_vars

\* ------------------------------------------------------ commit provenance
\* The Provenance of a CommitInfo is the list of the values of provenanceMap,
\* a map keyed by commit ID: it is a set of commit IDs here.

\* Commits made with provenance, finished and deleted
NextProvenance ==
  \/ StartWithProvenance(MaxFlushCommits, SeqCalls)
  \/ BuildWithProvenance(MaxFlushCommits, SeqCalls)
  \/ StartOnBranch(MaxFlushCommits, SeqCalls)
  \/ MakeCommitByID(SeqCalls)
  \/ GetTreeForCommitNil(SeqCalls)
  \/ FinishAny(SeqCalls)
  \/ DeleteCommit(SeqCalls)

SpecProvenance == InitFlush /\ [][NextProvenance]_vars

\* C20: a commit that startCommit or buildCommit makes has in its Provenance
\* every provenance commit it is given and the Provenance of each of them;
\* and in every state, for a commit C and a commit X of C's Provenance, the
\* Provenance of X is part of the Provenance of C.
C20_ProvenanceClosed ==
  /\ [](\A c \in DOMAIN commits : \A x \in commits[c].prov :
          x \in DOMAIN commits => commits[x].prov \subseteq commits[c].prov)
  /\ [][\A i \in 1..MaxCalls :
          (calls[i].op = "makeCommit" /\ makeCommitCommit(i))
          => /\ calls[i].provenance \subseteq commits'[nextID].prov
             /\ \A p \in calls[i].provenance :
                  commits[p].prov \subseteq commits'[nextID].prov]_vars

\* A commit has in its Provenance a commit that has a Provenance of its own
C20_Witness ==
  \E c \in DOMAIN commits : \E x \in commits[c].prov :
    /\ x \in DOMAIN commits
    /\ commits[x].prov # {}
    /\ commits[x].prov \subseteq commits[c].prov
    /\ x \notin commits[x].prov

\* ---------------------------------------------------------- authorization
\* Auth is active.  `authorized` is the answer of AuthAPIClient.Authorize to
\* the request checkIsAuthorized sends for the repo and the scope.
NotAuthorized == "not authorized"

checkIsAuthorized(authorized) ==
  IF authorized THEN "" ELSE NotAuthorized

\* A handler returns the error of checkIsAuthorized
denied(op, err) ==
  /\ last' = Returned(op, err)
  /\ UNCHANGED <<store, nextID, calls, finishOK, db, treeCache, subVars>>

\* updateRepo reads the repo in its transaction, then checks the scope
authUpdateRepo(i, repo, provenance, authorized) ==
  LET err == checkIsAuthorized(authorized)
  IN IF repo \in DOMAIN repos /\ err # ""
       THEN FreeSlot(i) /\ denied("updateRepo", err)
       ELSE updateRepoRun(i, repo, provenance)

authDeleteRepo(repo, force, authorized) ==
  LET err == checkIsAuthorized(authorized)
  IN IF err # "" THEN denied("deleteRepo", err) ELSE deleteRepo(repo, force)

authMakeCommit(i, repo, parent, branch, treeRef, authorized) ==
  LET err == checkIsAuthorized(authorized)
  IN IF err # ""
       THEN /\ FreeSlot(i)
            /\ denied(IF treeRef = <<>> THEN "startCommit" ELSE "buildCommit",
                      err)
       ELSE makeCommitRun(i, repo, parent, branch, {}, treeRef)

authFinishCommit(i, repo, commitID, authorized) ==
  LET err == checkIsAuthorized(authorized)
  IN IF err # "" THEN FreeSlot(i) /\ denied("finishCommit", err)
     ELSE finishCommitInspect(i, repo, commitID)

authDeleteCommit(i, repo, commitID, authorized) ==
  LET err == checkIsAuthorized(authorized)
  IN IF err # "" THEN FreeSlot(i) /\ denied("deleteCommit", err)
     ELSE deleteCommitInspect(i, repo, commitID)

authSetBranch(i, repo, commitID, name, authorized) ==
  LET err == checkIsAuthorized(authorized)
  IN IF err # "" THEN FreeSlot(i) /\ denied("setBranch", err)
     ELSE setBranchInspect(i, repo, commitID, name)

authDeleteBranch(repo, name, authorized) ==
  LET err == checkIsAuthorized(authorized)
  IN IF err # "" THEN denied("deleteBranch", err) ELSE deleteBranch(repo, name)

authPutFile(id, path, objects, authorized) ==
  LET err == checkIsAuthorized(authorized)
  IN IF err # "" THEN denied("putFile", err) ELSE putFile(id, path, objects)

\* copyFile asks for READER on the source repo, then for WRITER on the
\* destination repo
authCopyFile(i, repo, src, srcPath, id, dstPath, overwrite, srcAuthorized, dstAuthorized) ==
  LET srcErr == checkIsAuthorized(srcAuthorized)
      dstErr == checkIsAuthorized(dstAuthorized)
  IN IF srcErr # "" THEN FreeSlot(i) /\ denied("copyFile", srcErr)
     ELSE IF dstErr # "" THEN FreeSlot(i) /\ denied("copyFile", dstErr)
     ELSE copyFile(i, repo, src, srcPath, id, dstPath, overwrite)

authDeleteFile(i, repo, commitID, path, authorized) ==
  LET err == checkIsAuthorized(authorized)
  IN IF err # "" THEN FreeSlot(i) /\ denied("deleteFile", err)
     ELSE deleteFileInspect(i, repo, commitID, path)

\* The mutating calls, the caller holding the scope asked for or not
AuthRepoCall(authorized) ==
  \/ \E i \in 1..SeqCalls, repo \in RepoNames,
          provenance \in {EmptyBag} :
       authUpdateRepo(i, repo, provenance, authorized)
  \/ \E repo \in RepoNames, force \in BOOLEAN :
       authDeleteRepo(repo, force, authorized)

AuthCommitCall(authorized) ==
  \/ /\ MakeCommitRoom(MaxRaceCommits, SeqCalls)
     /\ \E parent \in {NoRef} \cup CommitRefs, branch \in {""} \cup BranchNames,
           treeRef \in {<<>>} \cup {<<tree>> : tree \in BuildTrees} :
          authMakeCommit(1, CommitRepo, parent, branch, treeRef, authorized)
  \/ \E c \in DOMAIN commits :
       authFinishCommit(1, CommitRepo, c, authorized)
  \/ \E c \in DOMAIN commits :
       authDeleteCommit(1, CommitRepo, c, authorized)
  \/ \E c \in DOMAIN commits, name \in BranchNames :
       authSetBranch(1, CommitRepo, c, name, authorized)
  \/ \E name \in BranchNames : authDeleteBranch(CommitRepo, name, authorized)

AuthFileCall(authorized) ==
  \/ /\ Len(scratch) < SeqScratch
     /\ \E c \in DOMAIN commits, path \in FilePaths, objects \in {<<"h1">>} :
          authPutFile(c, path, objects, authorized)
  \/ \E src \in DOMAIN commits, c \in DOMAIN commits, path \in FilePaths,
        overwrite \in {TRUE}, srcAuthorized \in BOOLEAN :
       authCopyFile(1, CommitRepo, src, path, c, path, overwrite,
                    srcAuthorized, srcAuthorized => authorized)
  \/ \E c \in DOMAIN commits, path \in FilePaths :
       authDeleteFile(1, CommitRepo, c, path, authorized)

\* The later steps of the handlers that are let in
AuthSteps ==
  \/ updateRepoListGet(1)
  \/ updateRepoList(1)
  \/ updateRepoRetry(1)
  \/ updateRepoCommit(1)
  \/ MakeCommit(SeqCalls)
  \/ MakeCommitRetry(SeqCalls)
  \/ GetTreeForCommit(SeqCalls)
  \/ finishCommitPrefix(1)
  \/ finishCommitRead(1)
  \/ finishCommitSTM(1)
  \/ finishCommitClear(1)
  \/ deleteCommitPrefix(1)
  \/ deleteCommitClear(1)
  \/ deleteCommitList(1)
  \/ \E name \in BranchNames : deleteCommitBranchInspect(1, name)
  \/ \E name \in BranchNames : deleteCommitBranch(1, name)
  \/ deleteCommitSTM(1)
  \/ setBranch(1)
  \/ Len(scratch) < SeqScratch /\ copyFileDelete(1)
  \/ copyFileInspect(1)
  \/ Len(scratch) <= SeqScratch
       /\ \E rel \in copyFilePending(1) : copyFilePut(1, rel)
  \/ GetTreeForFile(SeqCalls)
  \/ Len(scratch) < SeqScratch /\ deleteFilePut(1)

NextAuth ==
  \/ \E authorized \in BOOLEAN : AuthRepoCall(authorized)
  \/ \E authorized \in BOOLEAN : AuthCommitCall(authorized)
  \/ \E authorized \in BOOLEAN : AuthFileCall(authorized)
  \/ AuthSteps

SpecAuth == InitEngine /\ [][NextAuth]_vars

\* C21: a call of updateRepo, deleteRepo, startCommit, buildCommit,
\* finishCommit, deleteCommit, setBranch, deleteBranch, putFile, copyFile or
\* deleteFile by a caller who does not hold the scope the call asks for
\* returns the not-authorized error and leaves repos, repoRefCounts,
\* commits, branches, openCommits and scratch as they are.
C21_DeniedUnchanged ==
  [][(AuthRepoCall(FALSE) \/ AuthCommitCall(FALSE) \/ AuthFileCall(FALSE))
     => /\ last'.err = NotAuthorized
        /\ UNCHANGED store]_vars

\* -------------------------------------------------- errors on the streams
\* A CommitEvent with Err set has no Value
ErrEvent == [commit |-> NoCommit, finished |-> FALSE]

\* The subscribeCommit goroutine returns an error: listCommit fails with an
\* error other than not found, or a watcher delivers watch.EventError.  The
\* deferred function sends the error unless done is closed, and closes the
\* stream.
subError ==
  /\ sub.pc \in {"list", "listFrom", "listTo", "listToGet", "listGet",
                 "waitBranch", "waitCommit"}
  /\ \/ /\ delivered' = Append(delivered, ErrEvent)
        /\ sub' = [sub EXCEPT !.pc = "done", !.pending = <<>>,
                              !.cursor = NoCommit, !.listed = <<>>]
        /\ branchWatch' = <<>>
        /\ commitWatch' = <<>>
        /\ UNCHANGED <<store, nextID, calls, last, finishOK, db, treeCache, done, flush>>
     \/ /\ done
        /\ subReturn

\* The goroutine of the watcher k gets watch.EventError, or cannot unmarshal
\* a Put event: it returns the error, which its deferred function has to
\* send on the buffered stream
flushWatchError(k) ==
  /\ k \in DOMAIN flush.watch
  /\ flush.watch[k].held = <<>>
  /\ flush' = [flush EXCEPT !.watch[k] = [evs |-> <<>>,
                                          held |-> <<FlushErrEvent>>]]
  /\ UNCHANGED <<store, nextID, calls, last, finishOK, db, treeCache, sub, branchWatch,
                 commitWatch, done, delivered>>

\* buildCommit in any repo, on a branch, with provenance
BuildOnBranch(max, n) ==
  \E i \in 1..n :
    /\ MakeCommitRoom(max, n)
    /\ \E repo \in RepoNames, branch \in BranchNames,
          provenance \in SUBSET DOMAIN commits :
         makeCommitRun(i, repo, NoRef, branch, provenance, <<EmptyTree>>)

FlushWatchError == \E k \in DOMAIN flush.watch : flushWatchError(k)

\* The two streams, their watchers failing, and the commits they deliver
NextStream ==
  \/ BuildOnBranch(MaxRaceCommits, SeqCalls)
  \/ Len(branchWatch) < MaxWatch /\ MakeCommit(SeqCalls)
  \/ GetTreeForCommit(SeqCalls)
  \/ /\ flush.pc = "idle"
     /\ \E branch \in BranchNames, from \in {NoCommit} \cup DOMAIN commits :
          subscribeCommit(CommitRepo, branch, from)
  \/ SubNext
  \/ subError
  \/ Close
  \/ sub.pc = "idle" /\ FlushCommit(MaxRaceCommits)
  \/ FlushCommitSteps
  \/ flushWatchOpenFail
  \/ FlushWatch
  \/ FlushWatchSend
  \/ FlushWatchError
  \/ FlushWatchReturn
  \/ flushReceive
  \/ flushSend
  \/ flushCloseCall
  \/ flushCancel

SpecStream == InitFlush /\ [][NextStream]_vars

\* C22: on the stream of subscribeCommit and on the stream of flushCommit an
\* event with Err set is the last event delivered, and the stream is closed
\* after it.
C22_ErrorTerminal ==
  /\ \A i \in 1..Len(delivered) :
       delivered[i] = ErrEvent => i = Len(delivered) /\ sub.pc = "done"
  /\ \A i \in 1..Len(flush.out) :
       flush.out[i] = FlushErrEvent
         => i = Len(flush.out) /\ flush.pc = "closed"

\* ------------------------------------------------- repo provenance cycles
\* C23: no repo is in its own Provenance, and no two repos are each in the
\* Provenance of the other.
C23_ProvenanceAcyclic ==
  \A R \in DOMAIN repos :
    /\ R \notin provenanceOf(repos[R])
    /\ \A S \in DOMAIN repos \ {R} :
         ~(R \in provenanceOf(repos[S]) /\ S \in provenanceOf(repos[R]))

\* ------------------------------------------------- deleteCommit, atomicity
\* C24: deleteCommit of commit C changes a branch only when the head of that
\* branch is C in the state in which it changes it; and when deleteCommit
\* returns nil, C is not in commits and is the head of no branch.
C24_DeleteAtomic ==
  [][\A i \in 1..MaxCalls :
       calls[i].op = "deleteCommit" =>
         /\ \A name \in BranchNames :
              (deleteCommitBranch(i, name) /\ branches' # branches)
                => headOf(branches, name) = calls[i].commit
         /\ (deleteCommitSTM(i) /\ last'.err = "")
              => /\ calls[i].commit \notin DOMAIN commits'
                 /\ \A name \in BranchNames :
                      headOf(branches', name) # calls[i].commit]_vars

\* ---------------------------------------------- finishCommit that fails
\* finishCommit returns an error, or its process dies, before its
\* transaction commits: an etcd call, GetObject or PutObject has failed.
\* `last` keeps the commit and the scratch records it had at that moment.
BeforeSTM == {"prefix", "read", "treeCache", "treeInspect", "treeGet",
              "treeObject", "stm"}
finishCommitFail(i) ==
  /\ calls[i].op = "finishCommit"
  /\ calls[i].pc \in BeforeSTM
  /\ calls' = [calls EXCEPT ![i] = Idle]
  /\ last' = [op |-> "finishCommit", err |-> "failed",
              commit |-> calls[i].commit, resp |-> scratchGet(calls[i].commit)]
  /\ UNCHANGED <<store, nextID, finishOK, db, treeCache, subVars>>

FinishCommitFail(n) == \E i \in 1..n : finishCommitFail(i)

\* No other handler is in flight
Alone(i) == \A j \in 1..MaxCalls : j # i => calls[j].op = "idle"

\* finishCommit, called when no other handler is in flight
FinishCommitAlone(n) ==
  \E i \in 1..n :
    /\ Alone(i)
    /\ \/ \E c \in DOMAIN commits : finishCommitInspect(i, CommitRepo, c)
       \/ finishCommitPrefix(i)
       \/ finishCommitRead(i)
       \/ finishCommitSTM(i)
       \/ finishCommitClear(i)

\* Writes and finishCommit, one handler at a time, finishCommit failing
NextFail ==
  \/ StartOnBranch(MaxRaceCommits, SeqCalls)
  \/ MakeCommitByID(SeqCalls)
  \/ GetTreeForCommit(SeqCalls)
  \/ PutFile(MaxScratch)
  \/ FinishCommitAlone(SeqCalls)
  \/ FinishCommitFail(SeqCalls)

SpecFail == InitEngine /\ [][NextFail]_vars

\* C25: no step of finishCommit up to its transaction changes the store, the
\* scratch keys included; when finishCommit fails before its transaction
\* commits, the commit is open, in openCommits and not finished; and a
\* finishCommit of that commit that follows is let in, its transaction
\* commits, and the tree it stores is the one of the scratch records that
\* were there at the failure, applied to the parent's tree.
C25_FailureBenign ==
  [][\A i \in 1..SeqCalls :
       /\ (/\ calls'[i] # calls[i]
           /\ calls[i].op = "finishCommit" \/ calls'[i].op = "finishCommit"
           /\ calls[i].op = "finishCommit" => calls[i].pc \in BeforeSTM
           /\ calls'[i].op = "finishCommit" => calls'[i].pc \in BeforeSTM)
          => UNCHANGED store
       /\ finishCommitFail(i)
          => /\ calls[i].commit \in openCommits'
             /\ calls[i].commit \in DOMAIN commits'
             /\ ~commits'[calls[i].commit].finished
       /\ (last.op = "finishCommit" /\ last.err = "failed")
          => /\ finishCommitInspect(i, CommitRepo, last.commit)
                => calls'[i].op = "finishCommit"
             /\ (/\ calls[i].op = "finishCommit"
                 /\ calls[i].pc = "stm"
                 /\ calls[i].commit = last.commit
                 /\ finishCommitSTM(i))
                => /\ calls'[i].op = "finishCommit"
                   /\ calls'[i].pc = "clear"
                   /\ commits'[last.commit].finished
                   /\ commits'[last.commit].tree =
                        applyWrites(last.resp,
                                    treeOfCommit(commits[last.commit].parent))]_vars

\* A finishCommit has failed on a commit with scratch records, and the
\* transaction of the finishCommit that followed has committed
C25_Witness ==
  /\ last.op = "finishCommit"
  /\ last.err = "failed"
  /\ last.resp # <<>>
  /\ \E i \in 1..SeqCalls :
       /\ calls[i].op = "finishCommit"
       /\ calls[i].pc = "clear"
       /\ calls[i].commit = last.commit
  /\ commits[last.commit].finished
  /\ commits[last.commit].tree # EmptyTree

\* ------------------------------------------------ applying a scratch stream
\* Bound: the scratch keys of the commit that is finished
MaxStream == 3

\* The files of the streams: one in the directory /x and one next to it
\* whose name starts with the name of the directory; no file is put where a
\* directory is
ApplyPaths == {"/x/y", "/xy"}
\* The directory deleteFile is also called for
ApplyDirs == {"/x"}
\* The commit that is finished and its parent
ApplyParent == 1
ApplyCommit == 2

\* The trees of the parent commit
ApplyTrees ==
  {EmptyTree,
   [p \in {"/x/y"} |-> [objects |-> <<"h1">>, size |-> 1]],
   [p \in ApplyPaths |-> [objects |-> <<"h2", "h1">>, size |-> 3]]}

\* The scratch keys deleteFile and putFile (Delimiter_NONE, no overwriteIndex)
\* write for the commit
ApplyKvs ==
  {[commit |-> ApplyCommit, path |-> p, tombstone |-> TRUE, records |-> <<>>] :
     p \in ApplyPaths \cup ApplyDirs}
  \cup
  {[commit |-> ApplyCommit, path |-> k[1], tombstone |-> FALSE,
    records |-> putFileRecords(k[2], objectsSize(k[2]))] :
     k \in ApplyPaths \X PutObjectSplit}

ApplyStreams == UNION {[1..n -> ApplyKvs] : n \in 0..MaxStream}

\* The state after buildCommit of a tree on master, startCommit on master,
\* and the putFile and deleteFile calls of a stream
InitApplyWith(trees, streams) ==
  /\ \E tree \in trees :
       /\ repos = [r \in {CommitRepo} |->
                     [prov |-> EmptyBag, size |-> sizeChange(tree, EmptyTree)]]
       /\ commits = [c \in {ApplyParent, ApplyCommit} |->
                       IF c = ApplyParent
                         THEN [repo |-> CommitRepo, parent |-> NoCommit,
                               prov |-> {}, finished |-> TRUE,
                               object |-> TRUE, tree |-> tree,
                               size |-> FSSize(tree)]
                         ELSE [repo |-> CommitRepo, parent |-> ApplyParent,
                               prov |-> {}, finished |-> FALSE,
                               object |-> FALSE,
                               tree |-> EmptyTree, size |-> 0]]
  /\ repoRefCounts = [r \in {CommitRepo} |-> 0]
  /\ branches = [k \in {<<CommitRepo, "master">>} |-> ApplyCommit]
  /\ openCommits = {ApplyCommit}
  /\ scratch \in streams
  /\ nextID = ApplyCommit + 1
  /\ calls = [i \in 1..MaxCalls |-> Idle]
  /\ last = Returned("none", "")
  /\ finishOK = {}
  /\ db = NoDB
  /\ treeCache = NoTrees
  /\ sub = SubIdle
  /\ branchWatch = <<>>
  /\ commitWatch = <<>>
  /\ done = FALSE
  /\ delivered = <<>>
  /\ flush = FlushIdle

InitApplyOf(streams) == InitApplyWith(ApplyTrees, streams)

InitApply == InitApplyOf(ApplyStreams)

NextApply ==
  \/ FinishCommitAlone(SeqCalls)
  \/ GetTreeForCommit(SeqCalls)

SpecApply == InitApply /\ [][NextApply]_vars

\* The index of the last tombstone for path p in the keys kvs, 0 without one
lastTombstone(kvs, p) ==
  LET T == {k \in 1..Len(kvs) : kvs[k].path = p /\ kvs[k].tombstone}
  IN IF T = {} THEN 0 ELSE CHOOSE k \in T : \A j \in T : j <= k

\* The index of the last tombstone in the keys kvs for path p or for a
\* directory p is in, 0 without one
lastTombstoneAbove(kvs, p) ==
  LET T == {k \in 1..Len(kvs) : isUnder(p, kvs[k].path) /\ kvs[k].tombstone}
  IN IF T = {} THEN 0 ELSE CHOOSE k \in T : \A j \in T : j <= k

\* The object hashes of the records for path p in the keys kvs after index t
hashesAfter(kvs, p, t) ==
  recordHashes(SelectSeq(SubSeq(kvs, t + 1, Len(kvs)),
                         LAMBDA kv : kv.path = p /\ ~kv.tombstone))

MaxIndex == 2

\* putFile's records with overwriteIndex.Index # 0: the first record takes
\* the OverwriteIndex
putFileOverwriteRecords(objects, size, index) ==
  LET records == putFileRecords(objects, size)
  IN [k \in 1..Len(records) |->
        IF k = 1
          THEN [hash |-> records[1].hash, size |-> records[1].size,
                overwriteIndex |-> index]
          ELSE records[k]]

\* The scratch keys for one path: tombstones, appends and overwrites
OverwriteKvs ==
  {kv \in ApplyKvs : kv.path = "/x/y"}
  \cup
  {[commit |-> ApplyCommit, path |-> "/x/y", tombstone |-> FALSE,
    records |-> putFileOverwriteRecords(k[1], objectsSize(k[1]), k[2])] :
     k \in PutObjectSplit \X (1..MaxIndex)}

OverwriteStreams == UNION {[1..n -> OverwriteKvs] : n \in 0..MaxStream}

InitOverwrite == InitApplyOf(OverwriteStreams)

SpecOverwrite == InitOverwrite /\ [][NextApply]_vars

\* The keys kvs hold a record with OverwriteIndex for path p
hasOverwrite(kvs, p) ==
  \E k \in 1..Len(kvs) :
    /\ kvs[k].path = p
    /\ \E n \in 1..Len(kvs[k].records) :
         "overwriteIndex" \in DOMAIN kvs[k].records[n]

\* C27: when finishCommit has applied scratch keys that hold a record with
\* OverwriteIndex for a path, the size of the file at that path is the sum
\* of the sizes of the objects in its list, whether the objects the record
\* dropped were written in this commit or are of the parent's tree.
C27_OverwriteSize ==
  \A i \in 1..SeqCalls :
    (calls[i].op = "finishCommit" /\ calls[i].pc \in {"stm", "clear"})
    => \A p \in DOMAIN calls[i].commitInfo.tree :
         hasOverwrite(calls[i].resp, p)
         => calls[i].commitInfo.tree[p].size =
              objectsSize(calls[i].commitInfo.tree[p].objects)

\* ------------------------------------------------------------ split files
\* Bounds: the children the path has in the parent's tree, and the records
\* of one split batch
MaxChildren == 16
MaxBatch == 2

SplitPath == "/x"

\* The object hashes of split records, in the order the records are written
SplitHashes == <<"s1", "s2", "s3", "s4", "s5", "s6", "s7", "s8",
                "s9", "s10", "s11", "s12", "s13", "s14", "s15", "s16">>

\* A directory of n children put with split by the commits before
splitDir(n) ==
  [objects |-> <<>>, size |-> n,
   children |-> [name \in {Sprintf0x(j, splitSuffixFmt) : j \in 0..(n - 1)} |->
                   [objects |-> <<"h1">>, size |-> 1]]]

\* The same directory with one more child, of a name that is no number
splitDirOther(n) ==
  [objects |-> <<>>, size |-> n + 1,
   children |-> [name \in {Sprintf0x(j, splitSuffixFmt) : j \in 0..(n - 1)}
                            \cup {<<"z">>} |->
                   [objects |-> <<"h1">>, size |-> 1]]]

\* The trees of the parent commit
SplitTrees ==
  {EmptyTree}
  \cup {[p \in {SplitPath} |-> splitDir(n)] : n \in 1..MaxChildren}
  \cup {[p \in {SplitPath} |-> splitDirOther(n)] : n \in 0..1}

\* The records of a batch of n records, the first of them record number k + 1
\* of the stream
splitRecords(k, n) ==
  [j \in 1..n |-> [hash |-> SplitHashes[k + j], size |-> 1]]

\* The scratch keys of putFile with a delimiter, one batch of sizes[j]
\* records after the other
RECURSIVE splitStreamFrom(_, _, _)
splitStreamFrom(sizes, j, k) ==
  IF j > Len(sizes) THEN <<>>
  ELSE <<[commit |-> ApplyCommit, path |-> SplitPath, tombstone |-> FALSE,
          split |-> TRUE, records |-> splitRecords(k, sizes[j])]>>
         \o splitStreamFrom(sizes, j + 1, k + sizes[j])

SplitStreams ==
  {splitStreamFrom(sizes, 1, 0) :
     sizes \in UNION {[1..n -> 0..MaxBatch] : n \in 0..MaxStream}}

InitSplit == InitApplyWith(SplitTrees, SplitStreams)

SpecSplit == InitSplit /\ [][NextApply]_vars

\* The number of records of the keys kvs
RECURSIVE recordCount(_)
recordCount(kvs) ==
  IF kvs = <<>> THEN 0 ELSE Len(Head(kvs).records) + recordCount(Tail(kvs))

\* The children of the parent's tree are named 0 .. n-1
splitNumbered(children) ==
  DOMAIN children =
    {Sprintf0x(j, splitSuffixFmt) : j \in 0..(Cardinality(DOMAIN children) - 1)}

\* C28: when finishCommit has applied split batches to a path whose children
\* in the parent's tree are named with the 16 hex digits of 0 .. k-1, the
\* children are named with the 16 hex digits of 0 .. n-1, n being k plus
\* the number of records; child k + j holds the object of record j + 1 of
\* the stream and nothing else, and the children of the parent are as they
\* were.  When the last child's name is no hex number and the stream holds
\* a batch, finishCommit returns an error.
C28_SplitAppends ==
  LET parent == treeChildren(commits[ApplyParent].tree, SplitPath)
      k == Cardinality(DOMAIN parent)
  IN /\ \A i \in 1..SeqCalls :
          (/\ calls[i].op = "finishCommit"
           /\ calls[i].pc \in {"stm", "clear"}
           /\ splitNumbered(parent))
          => LET children == treeChildren(calls[i].commitInfo.tree, SplitPath)
                 n == k + recordCount(calls[i].resp)
             IN /\ DOMAIN children = {Sprintf0x(j, splitSuffixFmt) : j \in 0..(n - 1)}
                /\ \A j \in 0..(k - 1) :
                     children[Sprintf0x(j, splitSuffixFmt)]
                       = parent[Sprintf0x(j, splitSuffixFmt)]
                /\ \A j \in 0..(n - k - 1) :
                     children[Sprintf0x(k + j, splitSuffixFmt)].objects
                       = <<SplitHashes[j + 1]>>
     /\ \A i \in 1..SeqCalls :
          (/\ calls[i].op = "finishCommit"
           /\ calls[i].pc \in {"stm", "clear"}
           /\ ~splitNumbered(parent))
          => calls[i].resp = <<>>
     /\ (last.op = "finishCommit" /\ last.err \notin {"", "already finished"})
          => ~splitNumbered(parent)

\* The transaction of finishCommit has committed a tree with more than 16
\* children of a path that had children in the parent's tree, after two
\* batches
C28_Witness ==
  \E i \in 1..SeqCalls :
    /\ calls[i].op = "finishCommit"
    /\ calls[i].pc = "clear"
    /\ Len(calls[i].resp) >= 2
    /\ Len(calls[i].resp[1].records) > 0
    /\ Len(calls[i].resp[2].records) > 0
    /\ DOMAIN treeChildren(commits[ApplyParent].tree, SplitPath) # {}
    /\ Cardinality(DOMAIN treeChildren(commits[ApplyCommit].tree, SplitPath))
         > splitSuffixBase
    /\ Sprintf0x(splitSuffixBase, splitSuffixFmt)
         \in DOMAIN treeChildren(commits[ApplyCommit].tree, SplitPath)

\* ------------------------------------------- putFile with Delimiter_LINE
\* Bounds: the bytes of the input, targetFileDatums and targetFileBytes
MaxInput == 4
MaxTarget == 2

Newline == "\n"
InputBytes == {"a", Newline}
Inputs == UNION {[1..n -> InputBytes] : n \in 0..MaxInput}

\* bufioR.ReadBytes('\n'): the number of bytes up to and including the
\* first delimiter, or all of them when there is none
RECURSIVE readBytesLen(_)
readBytesLen(reader) ==
  IF reader = <<>> THEN 0
  ELSE IF Head(reader) = Newline THEN 1
  ELSE 1 + readBytesLen(Tail(reader))

\* bufioR.ReadBytes('\n'): the bytes read, the error (io.EOF when the input
\* ends before a delimiter) and what is left of the input
ReadBytes(reader) ==
  LET n == readBytesLen(reader)
      value == SubSeq(reader, 1, n)
  IN [value |-> value,
      err |-> IF n = 0 \/ value[n] # Newline THEN "EOF" ELSE "",
      reader |-> SubSeq(reader, n + 1, Len(reader))]

\* pachClient.PutObject: the object of a buffer is addressed by its content
PutObject(buffer) == [hash |-> buffer, size |-> Len(buffer)]

\* The goroutine's write of its record, under the order the uploads end in
indexToRecordArrival(indexToRecord, index, record) ==
  indexToRecord @@ (Cardinality(DOMAIN indexToRecord) :> record)

\* indexToRecord[index] = record
indexToRecordPut(indexToRecord, index, record) ==
  (index :> record) @@ indexToRecord

\* putFile with Delimiter_LINE by commit ID, up to the loop
putFileLineStart(i, id, path, targetFileDatums, targetFileBytes, reader) ==
  /\ FreeSlot(i)
  /\ calls' = [calls EXCEPT ![i] =
       [op |-> "putFile", pc |-> "loop", commit |-> id, path |-> path,
        targetFileDatums |-> targetFileDatums,
        targetFileBytes |-> targetFileBytes,
        input |-> reader, reader |-> reader, buffer |-> <<>>,
        datumsWritten |-> 0, bytesWritten |-> 0, filesPut |-> 0,
        EOF |-> FALSE, uploads |-> {},
        indexToRecord |-> [n \in {} |-> PutObject(<<>>)],
        records |-> <<>>]]
  /\ UNCHANGED <<store, nextID, last, finishOK, db, treeCache, subVars>>

\* One pass of the loop `for !EOF`
putFileLineRead(i) ==
  LET c == calls[i]
      read == ReadBytes(c.reader)
      EOF == read.err = "EOF"
      buffer == c.buffer \o read.value
      bytesWritten == c.bytesWritten + Len(read.value)
      datumsWritten == c.datumsWritten + 1
      put == /\ Len(buffer) # 0
             /\ \/ c.targetFileBytes # 0 /\ bytesWritten >= c.targetFileBytes
                \/ c.targetFileDatums # 0 /\ datumsWritten >= c.targetFileDatums
                \/ c.targetFileBytes = 0 /\ c.targetFileDatums = 0
                \/ EOF
  IN /\ c.op = "putFile" /\ c.pc = "loop" /\ ~c.EOF
     /\ calls' = [calls EXCEPT ![i] =
          IF put
            THEN [c EXCEPT !.reader = read.reader, !.EOF = EOF,
                    !.uploads = @ \cup {[index |-> c.filesPut, buffer |-> buffer]},
                    !.datumsWritten = 0, !.bytesWritten = 0,
                    !.buffer = <<>>, !.filesPut = @ + 1]
            ELSE [c EXCEPT !.reader = read.reader, !.EOF = EOF,
                    !.buffer = buffer, !.bytesWritten = bytesWritten,
                    !.datumsWritten = datumsWritten]]
     /\ UNCHANGED <<store, nextID, last, finishOK, db, treeCache, subVars>>

\* One goroutine of eg.Go: the upload of its buffer ends and it writes its
\* record
putFileLineUpload(i) ==
  /\ calls[i].op = "putFile" /\ calls[i].pc = "loop"
  /\ \E u \in calls[i].uploads :
       LET object == PutObject(u.buffer)
       IN calls' = [calls EXCEPT ![i] =
            [@ EXCEPT !.uploads = @ \ {u},
                      !.indexToRecord =
                        indexToRecordPut(@, u.index,
                          [hash |-> object.hash, size |-> object.size])]]
  /\ UNCHANGED <<store, nextID, last, finishOK, db, treeCache, subVars>>

\* eg.Wait() and the loop that appends indexToRecord[0], indexToRecord[1], ...
putFileLineWait(i) ==
  LET c == calls[i]
  IN /\ c.op = "putFile" /\ c.pc = "loop" /\ c.EOF /\ c.uploads = {}
     /\ calls' = [calls EXCEPT ![i] =
          [c EXCEPT !.pc = "put",
                    !.records = [j \in 1..Cardinality(DOMAIN c.indexToRecord) |->
                                   c.indexToRecord[j - 1]]]]
     /\ UNCHANGED <<store, nextID, last, finishOK, db, treeCache, subVars>>

\* putRecords with records.Split
putFileLinePut(i) ==
  LET c == calls[i]
  IN /\ c.op = "putFile" /\ c.pc = "put"
     /\ calls' = [calls EXCEPT ![i] = Idle]
     /\ UNCHANGED <<repos, repoRefCounts, commits, branches, openCommits,
                    nextID, finishOK, db, treeCache, subVars>>
     /\ IF c.commit \in openCommits
          THEN /\ scratch' = Append(scratch,
                    [commit |-> c.commit, path |-> c.path, tombstone |-> FALSE,
                     split |-> TRUE, records |-> c.records])
               /\ last' = Returned("putFile", "")
          ELSE /\ UNCHANGED scratch
               /\ last' = Returned("putFile", "commit is not open")

PutFileLine(n, k) ==
  \E i \in 1..n :
    \/ /\ Len(scratch) < k
       /\ \E c \in DOMAIN commits, reader \in Inputs,
             targetFileDatums \in 0..MaxTarget, targetFileBytes \in 0..MaxTarget :
            putFileLineStart(i, c, SplitPath, targetFileDatums,
                             targetFileBytes, reader)
    \/ putFileLineRead(i)
    \/ putFileLineUpload(i)
    \/ putFileLineWait(i)
    \/ putFileLinePut(i)

\* putFile with Delimiter_LINE to an open and to a finished commit, one
\* handler at a time, its uploads in parallel
InitLine == InitApplyWith({EmptyTree}, {<<>>})

NextLine == PutFileLine(SeqCalls, SeqScratch)

SpecLine == InitLine /\ [][NextLine]_vars

\* The lines of an input: every line ends with its delimiter, the last one
\* with the end of the input
RECURSIVE linesOf(_)
linesOf(input) ==
  IF input = <<>> THEN <<>>
  ELSE LET n == CHOOSE n \in 1..Len(input) :
                  /\ input[n] = Newline \/ n = Len(input)
                  /\ \A j \in 1..(n - 1) : input[j] # Newline
       IN <<SubSeq(input, 1, n)>> \o linesOf(SubSeq(input, n + 1, Len(input)))

RECURSIVE concat(_)
concat(seqs) == IF seqs = <<>> THEN <<>> ELSE Head(seqs) \o concat(Tail(seqs))

\* Group g of the lines, k lines to a group
lineGroup(lines, k, g) ==
  concat(SubSeq(lines, (g - 1) * k + 1,
                IF g * k < Len(lines) THEN g * k ELSE Len(lines)))

\* C29: the scratch keys only change when a putFile with Delimiter_LINE
\* returns, by one key with records.Split; when targetFileDatums is k > 0
\* and targetFileBytes is 0 and the input has n lines, the key has
\* ceil(n/k) records, record g holds lines (g-1)k+1 .. gk of the input
\* (the last record the lines that are left), the contents of the records
\* make up the input, and no record is empty.
C29_LineGroups ==
  [][scratch' # scratch /\ Len(scratch') > Len(scratch) =>
       \E i \in 1..MaxCalls :
         /\ calls[i].op = "putFile" /\ calls[i].pc = "put"
         /\ calls'[i] = Idle
         /\ Len(scratch') = Len(scratch) + 1
         /\ SubSeq(scratch', 1, Len(scratch)) = scratch
         /\ LET kv == scratch'[Len(scratch')]
                k == calls[i].targetFileDatums
                lines == linesOf(calls[i].input)
                n == Len(lines)
            IN /\ kv.split /\ kv.commit = calls[i].commit
               /\ kv.path = calls[i].path
               /\ \A g \in 1..Len(kv.records) : kv.records[g].size > 0
               /\ (k > 0 /\ calls[i].targetFileBytes = 0) =>
                    /\ Len(kv.records) = (n + k - 1) \div k
                    /\ \A g \in 1..Len(kv.records) :
                         /\ kv.records[g].hash = lineGroup(lines, k, g)
                         /\ kv.records[g].size = Len(lineGroup(lines, k, g))
                    /\ concat([g \in 1..Len(kv.records) |-> kv.records[g].hash])
                         = calls[i].input]_vars

\* A putFile of three lines, two to a record, has returned and its key holds
\* a record of two lines and a record of one
C29_Witness ==
  /\ last = Returned("putFile", "")
  /\ \E j \in 1..Len(scratch) :
       /\ "split" \in DOMAIN scratch[j]
       /\ Len(scratch[j].records) = 2
       /\ Len(linesOf(scratch[j].records[1].hash)) = 2
       /\ Len(linesOf(scratch[j].records[2].hash)) = 1

\* ----------------------------------------------------------- the tree cache
\* C30: every commit ID treeCache holds is the ID of a commit that has a
\* record, the record has Finished set, and the tree the cache holds is the
\* tree of the record, so that getTreeForCommit returns the tree of the
\* record whether or not the cache holds the commit.
C30_CacheOfFinished ==
  \A id \in DOMAIN treeCache :
    /\ id \in DOMAIN commits
    /\ commits[id].finished
    /\ treeCache[id] = commits[id].tree

\* ------------------------------------------ writes addressed by branch name
\* uuid.UUIDWithoutDashesLength
UUIDWithoutDashesLength == 32

\* Branch names: TLC strings have no characters, so the bytes of a name are
\* given here.  LongFour has 32 bytes and '4' as its 13th, LongOther has 32
\* bytes and no '4'.
LongFour == "aaaaaaaaaaaa4aaaaaaaaaaaaaaaaaaa"
LongOther == "aaaaaaaaaaaaaaaaaaaaaaaaaaaaaaaa"
WriteBranchNames == {"master", LongFour, LongOther}
nameBytes(name) ==
  IF name = "master" THEN <<"m", "a", "s", "t", "e", "r">>
  ELSE [i \in 1..UUIDWithoutDashesLength |->
          IF name = LongFour /\ i = 13 THEN "4" ELSE "a"]

\* putFile and copyFile: the reference is taken for a commit ID
\* (len(ID) == uuid.UUIDWithoutDashesLength && ID[12] == '4')
isCommitID(ref) ==
  \/ ref.kind = "id"
  \/ /\ Len(nameBytes(ref.name)) = UUIDWithoutDashesLength
     /\ nameBytes(ref.name)[13] = "4"

\* The commit ID putFile and copyFile go on with when the reference is taken
\* for a commit ID: the reference itself, and a branch name is the ID of no
\* commit
writeCommitID(ref) == IF ref.kind = "id" THEN ref.id ELSE NoCommit

\* putFile with a commit reference, up to its first call of etcd: the Txn
\* for a reference taken for a commit ID, else the transaction of
\* inspectCommit
putFileTo(i, repo, ref, path, objects) ==
  /\ FreeSlot(i)
  /\ IF isCommitID(ref) THEN putFile(writeCommitID(ref), path, objects)
     ELSE /\ proceed(i, [op |-> "putFile", pc |-> "inspect", repo |-> repo,
                         ref |-> ref,
                         inspect |-> inspectCommitBranch(repo, ref),
                         commit |-> NoCommit, path |-> path,
                         objects |-> objects])
          /\ UNCHANGED <<store, nextID, finishOK, db, treeCache, subVars>>

\* putFile's inspectCommit: commits.Get in its loop; file.Commit is the
\* commit of the record
putFileInspect(i) ==
  LET c == calls[i]
      turn == inspectCommitGet(c.repo, c.inspect)
  IN /\ c.op = "putFile" /\ c.pc = "inspect"
     /\ proceed(i, IF ~turn.done THEN [c EXCEPT !.inspect = turn.ref]
                   ELSE IF turn.id = NoCommit
                     THEN Return("putFile", "commit not found")
                   ELSE [c EXCEPT !.pc = "put", !.commit = turn.id])
     /\ UNCHANGED <<store, nextID, finishOK, db, treeCache, subVars>>

\* putFile's Txn, after inspectCommit: the records are written only if
\* openCommits holds the commit
putFilePut(i) ==
  LET c == calls[i]
  IN /\ c.op = "putFile" /\ c.pc = "put"
     /\ scratch' = IF c.commit \in openCommits
                     THEN Append(scratch,
                            [commit |-> c.commit, path |-> c.path,
                             tombstone |-> FALSE,
                             records |-> putFileRecords(c.objects,
                                                        objectsSize(c.objects))])
                     ELSE scratch
     /\ calls' = [calls EXCEPT ![i] = Idle]
     /\ last' = Returned("putFile", IF c.commit \in openCommits
                                      THEN "" ELSE "commit is not open")
     /\ UNCHANGED <<repos, repoRefCounts, commits, branches, openCommits,
                    nextID, finishOK, db, treeCache, subVars>>

\* The handler of a copyFile call in an inspectCommit of its destination
copyFileCallTo(repo, src, srcPath, ref, dstPath, overwrite, pc) ==
  [ref |-> ref, inspect |-> inspectCommitBranch(repo, ref),
   overwrite |-> overwrite]
    @@ [copyFileCall(repo, src, srcPath, NoCommit, dstPath) EXCEPT !.pc = pc]

\* copyFile with a commit reference for the destination, up to its first
\* read of etcd.  For a reference that is not taken for a commit ID this is
\* the transaction of inspectCommit.  A branch name that is taken for a
\* commit ID is looked up by deleteFile's inspectCommit alone, with
\* overwrite
copyFileTo(i, repo, src, srcPath, ref, dstPath, overwrite) ==
  IF ref.kind = "id" \/ (isCommitID(ref) /\ ~overwrite)
    THEN copyFile(i, repo, src, srcPath, writeCommitID(ref), dstPath,
                  overwrite)
    ELSE /\ FreeSlot(i)
         /\ proceed(i, copyFileCallTo(repo, src, srcPath, ref, dstPath,
                                      overwrite,
                                      IF isCommitID(ref) THEN "deleteInspect"
                                                         ELSE "inspect"))
         /\ UNCHANGED <<store, nextID, finishOK, db, treeCache, subVars>>

\* copyFile's inspectCommit of the destination: commits.Get in its loop;
\* dst.Commit is the commit of the record
copyFileDstInspect(i) ==
  LET c == calls[i]
      turn == inspectCommitGet(c.repo, c.inspect)
  IN /\ c.op = "copyFile" /\ c.pc = "inspect"
     /\ proceed(i, IF ~turn.done THEN [c EXCEPT !.inspect = turn.ref]
                   ELSE IF turn.id = NoCommit
                     THEN Return("copyFile", "commit not found")
                   ELSE [c EXCEPT !.pc = IF c.overwrite THEN "overwrite"
                                                         ELSE "dst",
                                  !.commit = turn.id])
     /\ UNCHANGED <<store, nextID, finishOK, db, treeCache, subVars>>

\* copyFile, after inspectCommit of the destination: its next read of etcd
copyFileDst(i) ==
  LET c == calls[i]
  IN /\ c.op = "copyFile" /\ c.pc \in {"dst", "overwrite"}
     /\ proceed(i, copyFileStart([c EXCEPT !.pc = "file"],
                                 c.pc = "overwrite"))
     /\ UNCHANGED <<store, nextID, finishOK, db, treeCache, subVars>>

\* deleteFile's inspectCommit of a destination copyFile has not looked up:
\* commits.Get in its loop.  inspectCommit assigns the ID of the record to
\* the Commit it is given, which is dst.Commit, and deleteFile refuses a
\* finished commit
copyFileDeleteInspect(i) ==
  LET c == calls[i]
      turn == inspectCommitGet(c.repo, c.inspect)
  IN /\ c.op = "copyFile" /\ c.pc = "deleteInspect"
     /\ proceed(i, IF ~turn.done THEN [c EXCEPT !.inspect = turn.ref]
                   ELSE IF turn.id = NoCommit
                     THEN Return("copyFile", "commit not found")
                   ELSE IF commits[turn.id].finished
                     THEN Return("copyFile", "commit finished")
                   ELSE [c EXCEPT !.pc = "tombstone", !.commit = turn.id])
     /\ UNCHANGED <<store, nextID, finishOK, db, treeCache, subVars>>

StartOnNamed(max, n) ==
  \E i \in 1..n :
    /\ MakeCommitRoom(max, n)
    /\ \E branch \in WriteBranchNames :
         makeCommitRun(i, CommitRepo, NoRef, branch, {}, <<>>)
SetBranchNamed(n) ==
  \E i \in 1..n :
    \/ \E c \in DOMAIN commits, name \in WriteBranchNames :
         setBranchInspect(i, CommitRepo, c, name)
    \/ setBranch(i)
WriteRefs ==
  {IDRef(c) : c \in DOMAIN commits} \cup {BranchRef(b) : b \in WriteBranchNames}
PutFileTo(n, k) ==
  \E i \in 1..n :
    /\ Len(scratch) < k
    /\ \/ \E ref \in WriteRefs, path \in FilePaths, objects \in PutObjectSplit :
            putFileTo(i, CommitRepo, ref, path, objects)
       \/ putFileInspect(i)
       \/ putFilePut(i)
CopyFileTo(n, k) ==
  \E i \in 1..n :
    \/ \E src \in DOMAIN commits, ref \in WriteRefs, path \in FilePaths,
          overwrite \in BOOLEAN :
         copyFileTo(i, CommitRepo, src, path, ref, path, overwrite)
    \/ copyFileDstInspect(i)
    \/ copyFileDst(i)
    \/ copyFileDeleteInspect(i)
    \/ Len(scratch) < k /\ copyFileDelete(i)
    \/ copyFileInspect(i)
    \/ Len(scratch) < k /\ \E rel \in copyFilePending(i) : copyFilePut(i, rel)

\* Commits on named branches and the writes to them by ID and by branch
NextNamed ==
  \/ StartOnNamed(MaxRaceCommits, SeqCalls)
  \/ MakeCommitByID(SeqCalls)
  \/ SetBranchNamed(SeqCalls)
  \/ PutFileTo(SeqCalls, MaxScratch)
  \/ CopyFileTo(SeqCalls, MaxScratch)
  \/ GetTreeForFile(SeqCalls)

SpecNamed == InitEngine /\ [][NextNamed]_vars

\* The head of a branch is an open commit
openHead(b) ==
  /\ <<CommitRepo, b>> \in DOMAIN branches
  /\ branches[<<CommitRepo, b>>] \in openCommits
  /\ branches[<<CommitRepo, b>>] \in DOMAIN commits
  /\ ~commits[branches[<<CommitRepo, b>>]].finished

\* C31: a putFile or copyFile addressed by the name of a branch whose head
\* is an open commit reads the ID of the head, for every branch name, and
\* goes on with the ID it has read when the commit is still open; and the
\* write of a putFile or copyFile that goes on with the ID of an open commit
\* adds one scratch key under that ID.
C31_BranchWrites ==
  [][\A i \in 1..SeqCalls :
       /\ \A b \in WriteBranchNames :
            openHead(b)
            => /\ \A path \in FilePaths, objects \in PutObjectSplit :
                    putFileTo(i, CommitRepo, BranchRef(b), path, objects)
                    => /\ calls'[i].op = "putFile"
                       /\ calls'[i].inspect.id = branches[<<CommitRepo, b>>]
               /\ \A src \in DOMAIN commits, path \in FilePaths,
                     overwrite \in BOOLEAN :
                    copyFileTo(i, CommitRepo, src, path, BranchRef(b), path,
                               overwrite)
                    => /\ calls'[i].op = "copyFile"
                       /\ "inspect" \in DOMAIN calls'[i]
                       /\ calls'[i].inspect.id = branches[<<CommitRepo, b>>]
       /\ (/\ calls[i].op \in {"putFile", "copyFile"}
           /\ calls[i].pc \in {"inspect", "deleteInspect"}
           /\ calls[i].inspect.id \in openCommits
           /\ calls[i].inspect.id \in DOMAIN commits
           /\ ~commits[calls[i].inspect.id].finished
           /\ \/ putFileInspect(i)
              \/ copyFileDstInspect(i)
              \/ copyFileDeleteInspect(i))
          => /\ calls'[i].op = calls[i].op
             /\ calls'[i].commit = calls[i].inspect.id
       /\ (/\ calls[i].op = "putFile"
           /\ calls[i].commit \in openCommits
           /\ putFilePut(i))
          => /\ Len(scratch') = Len(scratch) + 1
             /\ scratch'[Len(scratch')].commit = calls[i].commit
       /\ \A rel \in copyFilePending(i) :
            (calls[i].commit \in openCommits /\ copyFilePut(i, rel))
            => /\ Len(scratch') = Len(scratch) + 1
               /\ scratch'[Len(scratch')].commit = calls[i].commit]_vars

\* ------------------------------------------------------ the openCommits index
\* C32: openCommits holds exactly the IDs of the commits that have a record
\* without Finished.
C32_OpenExact ==
  openCommits = {c \in DOMAIN commits : ~commits[c].finished}

\* ------------------------------------------------------------ branch heads
\* The calls that make and remove commits and branches, deleteCommit running
\* next to the others
NextHeads ==
  \/ StartCommit(MaxRaceCommits, MaxCalls)
  \/ BuildCommit(MaxRaceCommits, MaxCalls)
  \/ GetTreeForCommit(MaxCalls)
  \/ MakeCommit(MaxCalls)
  \/ MakeCommitRetry(MaxCalls)
  \/ SetBranch(MaxCalls)
  \/ DeleteBranch
  \/ DeleteCommit(MaxCalls)
  \/ DeleteRepo

SpecHeads == InitEngine /\ [][NextHeads]_vars

\* C33: the head of every branch is a commit that has a record in the
\* commits of the branch's repo.
C33_HeadsExist ==
  \A k \in DOMAIN branches : branches[k] \in commitsOf(k[1])

\* ------------------------------------------------- writes next to finishCommit
\* The scratch keys of records, the tombstones left out
recordKeys(kvs) == SelectSeq(kvs, LAMBDA kv : ~kv.tombstone)

\* C34: no putFile or copyFile adds a scratch key for a commit once a
\* finishCommit call has read the scratch space of that commit, and when the
\* transaction of finishCommit commits, the keys of records that the scratch
\* space holds for the commit are the keys finishCommit has applied.
C34_NoWriteLost ==
  [][/\ (/\ Len(scratch') > Len(scratch)
         /\ ~scratch'[Len(scratch')].tombstone)
        => \A i \in 1..MaxCalls :
             ~(/\ calls[i].op = "finishCommit"
               /\ calls[i].pc \in {"stm", "clear"}
               /\ calls[i].commit = scratch'[Len(scratch')].commit)
     /\ \A i \in 1..MaxCalls :
          (/\ calls[i].op = "finishCommit"
           /\ calls[i].pc = "stm"
           /\ calls'[i].op = "finishCommit"
           /\ calls'[i].pc = "clear")
          => recordKeys(scratchKeys(calls[i].commit))
               = recordKeys(calls[i].resp)]_vars

\* ------------------------------------------------ reading an open commit
ReadPaths == {"/x", "/x/y", "/xy"}
\* The files of the parent commit lie in the directory /x and next to it
ReadFiles == {"/x/y", "/xy"}
ReadTrees ==
  {EmptyTree,
   [p \in {"/x/y"} |-> [objects |-> <<"h1">>, size |-> 1]],
   [p \in ReadFiles |-> [objects |-> <<"h2", "h1">>, size |-> 3]]}

\* The scratch keys of deleteFile on a path and of putFile on a file
ReadKvs ==
  {[commit |-> ApplyCommit, path |-> p, tombstone |-> TRUE, records |-> <<>>] :
     p \in ReadPaths}
  \cup
  {[commit |-> ApplyCommit, path |-> k[1], tombstone |-> FALSE,
    records |-> putFileRecords(k[2], objectsSize(k[2]))] :
     k \in ReadFiles \X PutObjectSplit}

ReadStreams == UNION {[1..n -> ReadKvs] : n \in 0..SeqScratch + 1}

InitRead == InitApplyWith(ReadTrees, ReadStreams)

SpecRead == InitRead /\ [][NextApply]_vars

\* HashTree.Get and the walk below it: the nodes at a path
treeGet(tree, path) == [q \in treeUnder(tree, path) |-> tree[q]]

\* C35: once finishCommit has built the tree of an open commit, and before
\* its transaction, every path has in the tree getTreeForFile returns for it
\* the node it has in the tree finishCommit has built.
C35_ReadAgrees ==
  \A i \in 1..MaxCalls :
    (/\ calls[i].op = "finishCommit"
     /\ calls[i].pc = "stm"
     /\ ~commits[calls[i].commit].finished)
    => \A p \in ReadPaths :
         treeGet(applyWrites(scratchGetFile(calls[i].commit, p),
                             treeOfCommit(commits[calls[i].commit].parent)),
                 p)
           = treeGet(calls[i].commitInfo.tree, p)

\* ------------------------------------------------- concurrent finishCommit
NextSize ==
  \/ StartCommit(MaxRaceCommits, MaxCalls)
  \/ MakeCommit(MaxCalls)
  \/ GetTreeForCommit(MaxCalls)
  \/ FinishCommit(MaxCalls)
  \/ PutFile(MaxScratch)

SpecSize == InitEngine /\ [][NextSize]_vars

\* The tree of the parent of a commit, the empty tree for no parent
parentTreeOf(info) ==
  IF info.parent = NoCommit THEN EmptyTree ELSE commits[info.parent].tree
\* The size a finished commit adds to its repo
sizeDelta(c) == sizeChange(commits[c].tree, parentTreeOf(commits[c]))
finishedOf(repo) == {c \in commitsOf(repo) : commits[c].finished}
\* SizeBytes of the repo is the sum of the deltas of its finished commits
RepoSizeIsSum ==
  repos[CommitRepo].size
    = SumOver([c \in finishedOf(CommitRepo) |-> sizeDelta(c)],
              finishedOf(CommitRepo))

\* C36: the transaction of finishCommit commits for a commit that is not yet
\* finished and that no other call has finished, and adds the size delta of
\* the tree it writes to SizeBytes of the repo; a finishCommit returns
\* success only for a commit for which none has before; and SizeBytes of the
\* repo is the sum of the size deltas of its finished commits after every
\* step, whichever way the calls interleave.
C36_FinishOnce ==
  [][/\ \A i \in 1..MaxCalls :
          (/\ calls[i].op = "finishCommit"
           /\ calls[i].pc = "stm"
           /\ calls'[i].op = "finishCommit"
           /\ calls'[i].pc = "clear")
          => /\ ~commits[calls[i].commit].finished
             /\ commits'[calls[i].commit].finished
             /\ \A j \in 1..MaxCalls :
                  ~(/\ j # i
                    /\ calls[j].op = "finishCommit"
                    /\ calls[j].pc = "clear"
                    /\ calls[j].commit = calls[i].commit)
             /\ repos'[CommitRepo].size
                  = repos[CommitRepo].size
                      + sizeChange(commits'[calls[i].commit].tree,
                                   parentTreeOf(commits'[calls[i].commit]))
     /\ \A i \in 1..MaxCalls :
          (/\ calls[i].op = "finishCommit"
           /\ calls[i].pc = "clear"
           /\ calls'[i].op = "idle")
          => calls[i].commit \notin finishOK
     /\ RepoSizeIsSum']_vars

\* Two finishCommit calls have raced on a commit with a file: one has
\* returned success, the transaction of the other has found the commit no
\* longer open; and two commits of the repo are finished, both with a file
C36_Witness ==
  /\ last = Returned("finishCommit", "could not confirm that commit is open")
  /\ \E c \in finishOK, d \in finishOK :
       /\ c # d
       /\ sizeDelta(c) > 0
       /\ sizeDelta(d) > 0
       /\ repos[CommitRepo].size = sizeDelta(c) + sizeDelta(d)

\* ------------------------------------------------ a deleted commit stays so
\* C37: no step writes a commit record under an ID that has been given out
\* before and has no record; the commits without a record are those a
\* deleteCommit has deleted and returned nil for.
C37_DeletedStays ==
  [][DOMAIN commits' # DOMAIN commits
       => \A c \in DOMAIN commits' \ DOMAIN commits : c >= nextID]_vars

\* ---------------------------------------------- Close of a flushCommit stream
\* The goroutines of a flush
FlushGoroutines ==
  \/ FlushWatch
  \/ FlushWatchSend
  \/ FlushWatchError
  \/ flushReceive
  \/ flushCancel
  \/ FlushWatchReturn

NextClose ==
  \/ BuildWithProvenance(MaxRaceCommits, SeqCalls)
  \/ \E i \in 1..SeqCalls : makeCommitCommit(i)
  \/ FlushCommit(MaxRaceCommits)
  \/ FlushCommitSteps
  \/ flushSend
  \/ flushCloseCall
  \/ FlushGoroutines

\* The Go scheduler runs every goroutine that can take a step; a consumer
\* that has not called Close keeps receiving
SpecClose ==
  /\ InitFlush
  /\ [][NextClose]_vars
  /\ WF_vars(FlushGoroutines)
  /\ WF_vars(flushReceive)
  /\ WF_vars(flushCancel)
  /\ WF_vars(FlushWatchReturn)
  /\ WF_vars(flushSend)

\* The forwarding goroutine has returned and no watch goroutine is left
flushTerminated ==
  /\ flush.pc \in {"closed", "cancelled"}
  /\ DOMAIN flush.watch = {}

\* C38: once Close has been called on the stream of a flushCommit, the
\* forwarding goroutine and every watch goroutine eventually return.
C38_CloseTerminates == flush.respDone ~> flushTerminated

\* ------------------------------- StartCommit of the database-backed driver
MaxDBCommits == 2
MaxFullClock == 2
\* Bound of the clock of a branch: DeleteAll and RemoveDB take the rows of
\* the commits away and leave the calls that run their full clocks, so that
\* the clocks are not bounded by the number of the commits
MaxClock == 1
DBBranches == {"master"}

\* persist.NewClock: the first clock of a branch
NewClock(branch) == [branch |-> branch, clock |-> 0]
\* persist.FullClockHead: the last component of a full clock
FullClockHead(fullClock) == fullClock[Len(fullClock)]
\* persist.NewChild: the full clock with its last component incremented by 1
NewChild(fullClock) ==
  [fullClock EXCEPT ![Len(fullClock)] = [@ EXCEPT !.clock = @ + 1]]
\* getClockID: the primary key of the row of a clock in the Clocks table,
\* "repo/branch/clock", of the one repo of the model
getClockID(c) == <<CommitRepo, c.branch, c.clock>>

\* The error of a query on a table that is not there, and on an index that
\* is not there
TableMissing == "table does not exist"
IndexMissing == "index does not exist"

\* The error of a query of table under index ("" for nil)
indexErr(table, index) ==
  IF table \notin db.tables THEN TableMissing
  ELSE IF index \notin db.indexes THEN IndexMissing
  ELSE ""

\* CommitClockIndex.Key of a row of Commits: the head of its full clock
headOfRow(c) == getClockID(FullClockHead(db.commits[c].fullClock))

\* The rows of the Commits table under CommitClockIndex between
\* Key(repo, branch, 0) and Key(repo, branch, MaxVal)
commitsOnBranch(branch) ==
  {c \in DOMAIN db.commits : FullClockHead(db.commits[c].fullClock).branch = branch}
\* getHeadOfBranch: the row with the greatest clock, by its ID; NoCommit for
\* gorethink.ErrEmptyResult
getHeadOfBranch(branch) ==
  IF commitsOnBranch(branch) = {} THEN NoCommit
  ELSE CHOOSE c \in commitsOnBranch(branch) :
         \A d \in commitsOnBranch(branch) :
           FullClockHead(db.commits[d].fullClock).clock
             <= FullClockHead(db.commits[c].fullClock).clock
\* The error of the query of getHeadOfBranch other than ErrEmptyResult
getHeadOfBranchErr == indexErr("Commits", "CommitClockIndex")

\* insertMessage(clockTable, clockID): gorethink.IsConflictErr of its error,
\* a row with the primary key is there
clockConflict(clockID) == clockID \in db.clocks

\* inspectRepo: its error ("" for nil)
inspectRepoErr(repo) ==
  IF "Repos" \notin db.tables THEN TableMissing
  ELSE IF repo \notin db.repos THEN "repo not found"
  ELSE ""

\* The error of getCommitByAmbiguousID's read of the row by primary key
getCommitErr(commitID) ==
  IF "Commits" \notin db.tables THEN TableMissing
  ELSE IF commitID \notin DOMAIN db.commits THEN "commit not found"
  ELSE ""

\* StartCommit up to the branch on parentID: inspectRepo, and the
\* persist.Commit is made, its FullClock empty
startCommitCall(i, commitID, parentID, branch) ==
  /\ FreeSlot(i)
  /\ proceed(i, IF inspectRepoErr(CommitRepo) # ""
                  THEN Return("startCommit", inspectRepoErr(CommitRepo))
                  ELSE [op |-> "startCommit",
                        pc |-> IF parentID = NoCommit THEN "head" ELSE "parent",
                        commitID |-> commitID, parentID |-> parentID,
                        branch |-> branch, fullClock |-> <<>>,
                        newBranch |-> FALSE, err |-> ""])
  /\ UNCHANGED <<store, nextID, finishOK, db, treeCache, subVars>>

\* Without parentID, one turn of the loop up to insertMessage: the head of
\* the branch is read; without a head a new clock is appended to
\* commit.FullClock, with a head commit.FullClock is the child of the head's
startCommitHead(i) ==
  LET head == getHeadOfBranch(calls[i].branch)
  IN /\ calls[i].op = "startCommit" /\ calls[i].pc = "head"
     /\ Len(calls[i].fullClock) < MaxFullClock
     /\ head # NoCommit
        => FullClockHead(db.commits[head].fullClock).clock < MaxClock
     /\ proceed(i, IF getHeadOfBranchErr # ""
                     THEN Return("startCommit", getHeadOfBranchErr)
                     ELSE [calls[i] EXCEPT
                             !.pc = "clock",
                             !.fullClock =
                               IF head = NoCommit
                                 THEN Append(@, NewClock(calls[i].branch))
                                 ELSE NewChild(db.commits[head].fullClock)])
     /\ UNCHANGED <<store, nextID, finishOK, db, treeCache, subVars>>

\* With parentID: getCommitByAmbiguousID first reads the head of the branch
\* of that name; an ID is the name of no branch, so that the read finds no
\* row, and the read by primary key is next
startCommitParent(i) ==
  /\ calls[i].op = "startCommit" /\ calls[i].pc = "parent"
  /\ proceed(i, IF getHeadOfBranchErr # ""
                  THEN Return("startCommit", getHeadOfBranchErr)
                  ELSE [calls[i] EXCEPT !.pc = "parentGet"])
  /\ UNCHANGED <<store, nextID, finishOK, db, treeCache, subVars>>

\* With parentID: getCommitByAmbiguousID's read of the parent by primary
\* key, and the full clock on the parent's branch or on a new branch off the
\* parent
startCommitParentGet(i) ==
  LET parentID == calls[i].parentID
  IN /\ calls[i].op = "startCommit" /\ calls[i].pc = "parentGet"
     /\ (parentID \in DOMAIN db.commits /\ calls[i].branch = "")
        => FullClockHead(db.commits[parentID].fullClock).clock < MaxClock
     /\ (parentID \in DOMAIN db.commits /\ calls[i].branch # "")
        => Len(db.commits[parentID].fullClock) < MaxFullClock
     /\ proceed(i, IF getCommitErr(parentID) # ""
                     THEN Return("startCommit", getCommitErr(parentID))
                   ELSE [calls[i] EXCEPT
                           !.pc = "clock",
                           !.newBranch = calls[i].branch # "",
                           !.fullClock =
                             IF calls[i].branch = ""
                               THEN NewChild(db.commits[parentID].fullClock)
                               ELSE Append(db.commits[parentID].fullClock,
                                           NewClock(calls[i].branch))])
     /\ UNCHANGED <<store, nextID, finishOK, db, treeCache, subVars>>

\* insertMessage(clockTable, clockID) of the head of commit.FullClock: on a
\* conflict the call without parentID goes round the loop again and the call
\* with parentID returns an error; any other error is returned
startCommitClock(i) ==
  LET clockID == getClockID(FullClockHead(calls[i].fullClock))
  IN /\ calls[i].op = "startCommit" /\ calls[i].pc = "clock"
     /\ UNCHANGED <<store, nextID, finishOK, treeCache, subVars>>
     /\ IF "Clocks" \notin db.tables
          THEN /\ UNCHANGED db
               /\ proceed(i, Return("startCommit", TableMissing))
        ELSE IF clockConflict(clockID)
          THEN /\ UNCHANGED db
               /\ proceed(i, IF calls[i].parentID = NoCommit
                               THEN [calls[i] EXCEPT !.pc = "head"]
                             ELSE IF calls[i].newBranch
                               THEN Return("startCommit",
                                           "branch already exists")
                             ELSE Return("startCommit",
                                         "already has a child on its own branch"))
          ELSE /\ db' = [db EXCEPT !.clocks = @ \cup {clockID}]
               /\ proceed(i, [calls[i] EXCEPT !.pc = "commit"])

\* The error of insertMessage(commitTable, commit) ("" for nil): a row with
\* the commit ID is there
insertCommitErr(commitID) ==
  IF "Commits" \notin db.tables THEN TableMissing
  ELSE IF commitID \in DOMAIN db.commits THEN "duplicate primary key"
  ELSE ""

\* insertMessage(commitTable, commit): when it fails the deferred function
\* is to run
startCommitInsert(i) ==
  LET err == insertCommitErr(calls[i].commitID)
  IN /\ calls[i].op = "startCommit" /\ calls[i].pc = "commit"
     /\ UNCHANGED <<store, nextID, finishOK, treeCache, subVars>>
     /\ db' = IF err # "" THEN db
              ELSE [db EXCEPT !.commits =
                      colPut(@, calls[i].commitID,
                             [repo |-> CommitRepo,
                              fullClock |-> calls[i].fullClock,
                              finished |-> FALSE])]
     /\ proceed(i, IF err # ""
                     THEN [calls[i] EXCEPT !.pc = "release", !.err = err]
                     ELSE Return("startCommit", ""))

\* The deferred function when retErr is not nil:
\* deleteMessageByPrimaryKey(clockTable, clockID.ID) and the return of
\* retErr.  The query deletes the row, or fails (the table is not there, or
\* the database does not answer) and leaves it: its error is logged and
\* nothing else is done about it
startCommitRelease(i) ==
  /\ calls[i].op = "startCommit" /\ calls[i].pc = "release"
  /\ \E deleted \in BOOLEAN :
       db' = IF deleted /\ "Clocks" \in db.tables
               THEN [db EXCEPT !.clocks =
                       @ \ {getClockID(FullClockHead(calls[i].fullClock))}]
               ELSE db
  /\ proceed(i, Return("startCommit", calls[i].err))
  /\ UNCHANGED <<store, nextID, finishOK, treeCache, subVars>>

\* StartCommit calls of the database-backed driver on the one repo, at most n
\* in flight, with the commit IDs and parents the callers give
DBStartCommit(n) ==
  \E i \in 1..n :
    \/ \E commitID \in 1..MaxDBCommits, parentID \in 0..MaxDBCommits,
          branch \in {""} \cup DBBranches :
         /\ parentID = NoCommit => branch # ""
         /\ startCommitCall(i, commitID, parentID, branch)
    \/ startCommitHead(i)
    \/ startCommitParent(i)
    \/ startCommitParentGet(i)
    \/ startCommitClock(i)
    \/ startCommitInsert(i)
    \/ startCommitRelease(i)

\* ------------------------------ FinishCommit of the database-backed driver
\* FinishCommit up to getCommitByAmbiguousID: inspectRepo.  Of the fields of
\* a row of Commits the model has Repo, FullClock and Finished, so that the
\* call has no cancel
dbFinishCommit(i, commitID) ==
  /\ FreeSlot(i)
  /\ proceed(i, IF inspectRepoErr(CommitRepo) # ""
                  THEN Return("FinishCommit", inspectRepoErr(CommitRepo))
                  ELSE [op |-> "FinishCommit", pc |-> "commit",
                        commitID |-> commitID, rawCommit |-> <<>>,
                        clock |-> <<>>, parentID |-> NoCommit])
  /\ UNCHANGED <<store, nextID, finishOK, db, treeCache, subVars>>

\* getCommitByAmbiguousID's read of the head of the branch of the name of the
\* commit ID, for rawCommit (pc "commit") and again in getIDOfParentCommit
\* (pc "again"): an ID is the name of no branch
dbFinishCommitHead(i) ==
  LET c == calls[i]
  IN /\ c.op = "FinishCommit" /\ c.pc \in {"commit", "again"}
     /\ proceed(i, IF getHeadOfBranchErr # ""
                     THEN Return("FinishCommit", getHeadOfBranchErr)
                     ELSE [c EXCEPT !.pc = IF c.pc = "commit"
                                             THEN "commitGet" ELSE "againGet"])
     /\ UNCHANGED <<store, nextID, finishOK, db, treeCache, subVars>>

\* getCommitByAmbiguousID's read of the commit by primary key: rawCommit is
\* the row as it is now
dbFinishCommitGet(i) ==
  LET c == calls[i]
  IN /\ c.op = "FinishCommit" /\ c.pc = "commitGet"
     /\ proceed(i, IF getCommitErr(c.commitID) # ""
                     THEN Return("FinishCommit", getCommitErr(c.commitID))
                     ELSE [c EXCEPT !.pc = "size",
                                    !.rawCommit = db.commits[c.commitID]])
     /\ UNCHANGED <<store, nextID, finishOK, db, treeCache, subVars>>

\* computeCommitSize: the sum over the rows of Diffs under DiffClockIndex at
\* the head of rawCommit; the table holds no row, and the size is that of
\* the default
dbFinishCommitSize(i) ==
  LET c == calls[i]
  IN /\ c.op = "FinishCommit" /\ c.pc = "size"
     /\ proceed(i, IF indexErr("Diffs", "DiffClockIndex") # ""
                     THEN Return("FinishCommit",
                                 indexErr("Diffs", "DiffClockIndex"))
                     ELSE [c EXCEPT !.pc = "again"])
     /\ UNCHANGED <<store, nextID, finishOK, db, treeCache, subVars>>

\* The clock of the parent of a commit with fullClock: <<>> for none
parentClock(fullClock) ==
  IF FullClockHead(fullClock).clock = 0
    THEN IF Len(fullClock) < 2 THEN <<>> ELSE fullClock[Len(fullClock) - 1]
    ELSE [FullClockHead(fullClock) EXCEPT !.clock = @ - 1]

\* getIDOfParentCommit: the read of the commit by primary key, again, and
\* the clock of its parent; a commit without parent is not waited for
dbFinishCommitAgain(i) ==
  LET c == calls[i]
  IN /\ c.op = "FinishCommit" /\ c.pc = "againGet"
     /\ proceed(i, IF getCommitErr(c.commitID) # ""
                     THEN Return("FinishCommit", getCommitErr(c.commitID))
                   ELSE IF parentClock(db.commits[c.commitID].fullClock) = <<>>
                     THEN [c EXCEPT !.pc = "repo"]
                   ELSE [c EXCEPT
                           !.pc = "parent",
                           !.clock =
                             parentClock(db.commits[c.commitID].fullClock)])
     /\ UNCHANGED <<store, nextID, finishOK, db, treeCache, subVars>>

\* getIDOfParentCommit: getMessageByIndex of the parent's clock under
\* CommitClockIndex; cursor.One takes a row of those with the key
dbFinishCommitParent(i) ==
  LET c == calls[i]
      rows == {p \in DOMAIN db.commits : headOfRow(p) = getClockID(c.clock)}
  IN /\ c.op = "FinishCommit" /\ c.pc = "parent"
     /\ IF getHeadOfBranchErr # ""
          THEN proceed(i, Return("FinishCommit", getHeadOfBranchErr))
        ELSE IF rows = {}
          THEN proceed(i, Return("FinishCommit", "not found in index"))
        ELSE \E p \in rows : proceed(i, [c EXCEPT !.pc = "wait", !.parentID = p])
     /\ UNCHANGED <<store, nextID, finishOK, db, treeCache, subVars>>

\* The changes of the row of the parent, the row as it is included: the loop
\* ends with the first value that has Finished, and until then the call
\* blocks; without the table the query fails
dbFinishCommitWait(i) ==
  LET c == calls[i]
  IN /\ c.op = "FinishCommit" /\ c.pc = "wait"
     /\ "Commits" \in db.tables
        => (c.parentID \in DOMAIN db.commits /\ db.commits[c.parentID].finished)
     /\ proceed(i, IF "Commits" \notin db.tables
                     THEN Return("FinishCommit", TableMissing)
                     ELSE [c EXCEPT !.pc = "repo"])
     /\ UNCHANGED <<store, nextID, finishOK, db, treeCache, subVars>>

\* The update of Size in the row of the repo; the rows of Repos of the model
\* are names, and an update of no row is no error
dbFinishCommitRepo(i) ==
  LET c == calls[i]
  IN /\ c.op = "FinishCommit" /\ c.pc = "repo"
     /\ proceed(i, IF "Repos" \notin db.tables
                     THEN Return("FinishCommit", TableMissing)
                     ELSE [c EXCEPT !.pc = "update"])
     /\ UNCHANGED <<store, nextID, finishOK, db, treeCache, subVars>>

\* Get(rawCommit.ID).Update(rawCommit): the row there is now gets every
\* field of rawCommit, FullClock as it was read, with Finished; an update
\* of no row is no error
dbFinishCommitUpdate(i) ==
  LET c == calls[i]
  IN /\ c.op = "FinishCommit" /\ c.pc = "update"
     /\ db' = IF c.commitID \in DOMAIN db.commits /\ "Commits" \in db.tables
                THEN [db EXCEPT !.commits[c.commitID] =
                        [c.rawCommit EXCEPT !.finished = TRUE]]
                ELSE db
     /\ proceed(i, IF "Commits" \notin db.tables
                     THEN Return("FinishCommit", TableMissing)
                     ELSE Return("FinishCommit", ""))
     /\ UNCHANGED <<store, nextID, finishOK, treeCache, subVars>>

\* FinishCommit calls of the database-backed driver, in the slots from n
DBFinishCommit(n) ==
  \E i \in n..MaxCalls :
    \/ \E commitID \in 1..MaxDBCommits : dbFinishCommit(i, commitID)
    \/ dbFinishCommitHead(i)
    \/ dbFinishCommitGet(i)
    \/ dbFinishCommitSize(i)
    \/ dbFinishCommitAgain(i)
    \/ dbFinishCommitParent(i)
    \/ dbFinishCommitWait(i)
    \/ dbFinishCommitRepo(i)
    \/ dbFinishCommitUpdate(i)

\* ------------------------------------------ the tables and the indexes
\* The database without the rows of a table
tableDelete(table) ==
  IF table = "Repos" THEN [db EXCEPT !.repos = {}]
  ELSE IF table = "Commits" THEN [db EXCEPT !.commits = <<>>]
  ELSE IF table = "Clocks" THEN [db EXCEPT !.clocks = {}]
  ELSE db

\* The names of the indexes on a table
indexesOn(table) ==
  {Indexes[k].name : k \in {j \in 1..Len(Indexes) : Indexes[j].table = table}}

\* The handler c of DeleteAll or RemoveDB after the table c.table
dbNextTable(c) ==
  IF c.table = Len(tables) THEN Return(c.op, "")
  ELSE [c EXCEPT !.table = @ + 1]

\* DeleteAll: one turn of its loop, getTerm(table).Delete() on the table
\* c.table
deleteAllTable(i, c) ==
  /\ db' = IF tables[c.table] \in db.tables
             THEN tableDelete(tables[c.table]) ELSE db
  /\ proceed(i, IF tables[c.table] \in db.tables
                  THEN dbNextTable(c) ELSE Return("DeleteAll", TableMissing))
  /\ UNCHANGED <<store, nextID, finishOK, treeCache, subVars>>

\* removeDB: one turn of its loop, TableDrop(table); the indexes on the
\* table go with it
removeDBTable(i, c) ==
  /\ db' = IF tables[c.table] \in db.tables
             THEN [tableDelete(tables[c.table])
                     EXCEPT !.tables = @ \ {tables[c.table]},
                            !.indexes = @ \ indexesOn(tables[c.table])]
             ELSE db
  /\ proceed(i, IF tables[c.table] \in db.tables
                  THEN dbNextTable(c) ELSE Return("RemoveDB", TableMissing))
  /\ UNCHANGED <<store, nextID, finishOK, treeCache, subVars>>

\* initDB: one turn of its loop over the tables, TableCreate(table), which
\* fails for a table that is there; after the last table the loop over
\* Indexes is next.  DBCreate before the loop finds the database there
initDBTable(i, c) ==
  /\ db' = IF tables[c.table] \notin db.tables
             THEN [db EXCEPT !.tables = @ \cup {tables[c.table]}]
             ELSE db
  /\ proceed(i, IF tables[c.table] \in db.tables
                  THEN Return("InitDB", "table already exists")
                ELSE IF c.table = Len(tables) THEN [c EXCEPT !.pc = "index"]
                ELSE [c EXCEPT !.table = @ + 1])
  /\ UNCHANGED <<store, nextID, finishOK, treeCache, subVars>>

\* initDB: IndexCreateFunc of the index c.index, which fails without the
\* table and for an index that is there
initDBIndex(i) ==
  LET c == calls[i]
      index == Indexes[c.index]
      err == IF index.table \notin db.tables THEN TableMissing
             ELSE IF index.name \in db.indexes THEN "index already exists"
             ELSE ""
  IN /\ c.op = "InitDB" /\ c.pc = "index"
     /\ db' = IF err = "" THEN [db EXCEPT !.indexes = @ \cup {index.name}]
                          ELSE db
     /\ proceed(i, IF err # "" THEN Return("InitDB", err)
                   ELSE [c EXCEPT !.pc = "indexWait"])
     /\ UNCHANGED <<store, nextID, finishOK, treeCache, subVars>>

\* initDB: IndexWait of the index c.index, which fails without the table and
\* without the index; after the last index initDB returns
initDBIndexWait(i) ==
  LET c == calls[i]
      index == Indexes[c.index]
  IN /\ c.op = "InitDB" /\ c.pc = "indexWait"
     /\ proceed(i, IF indexErr(index.table, index.name) # ""
                     THEN Return("InitDB", indexErr(index.table, index.name))
                   ELSE IF c.index = Len(Indexes) THEN Return("InitDB", "")
                   ELSE [c EXCEPT !.pc = "index", !.index = @ + 1])
     /\ UNCHANGED <<store, nextID, finishOK, db, treeCache, subVars>>

\* The handler of a call that goes through the tables, at the first
DBTablesCall(op) == [op |-> op, pc |-> "table", table |-> 1, index |-> 1]

\* DeleteAll, RemoveDB and InitDB, a query at a step
DeleteAll(i) ==
  \/ FreeSlot(i) /\ deleteAllTable(i, DBTablesCall("DeleteAll"))
  \/ calls[i].op = "DeleteAll" /\ deleteAllTable(i, calls[i])
RemoveDB(i) ==
  \/ FreeSlot(i) /\ removeDBTable(i, DBTablesCall("RemoveDB"))
  \/ calls[i].op = "RemoveDB" /\ removeDBTable(i, calls[i])
InitDB(i) ==
  \/ FreeSlot(i) /\ initDBTable(i, DBTablesCall("InitDB"))
  \/ /\ calls[i].op = "InitDB" /\ calls[i].pc = "table"
     /\ initDBTable(i, calls[i])
  \/ initDBIndex(i)
  \/ initDBIndexWait(i)

\* CreateRepo without provenance, up to its Insert: the read of the repos of
\* the provenance, which are none
dbCreateRepo(i, repo) ==
  /\ FreeSlot(i)
  /\ proceed(i, IF "Repos" \notin db.tables
                  THEN Return("CreateRepo", TableMissing)
                  ELSE [op |-> "CreateRepo", pc |-> "insert", repo |-> repo])
  /\ UNCHANGED <<store, nextID, finishOK, db, treeCache, subVars>>

\* CreateRepo's Insert into Repos
dbCreateRepoInsert(i) ==
  LET c == calls[i]
      err == IF "Repos" \notin db.tables THEN TableMissing
             ELSE IF c.repo \in db.repos THEN "repo exists"
             ELSE ""
  IN /\ c.op = "CreateRepo" /\ c.pc = "insert"
     /\ db' = IF err = "" THEN [db EXCEPT !.repos = @ \cup {c.repo}] ELSE db
     /\ proceed(i, Return("CreateRepo", err))
     /\ UNCHANGED <<store, nextID, finishOK, treeCache, subVars>>

\* DeleteRepo up to its first query: ListRepo's read of Repos without force,
\* and the Delete with force
dbDeleteRepo(i, repo, force) ==
  LET err == IF "Repos" \notin db.tables THEN TableMissing ELSE ""
  IN /\ FreeSlot(i)
     /\ db' = IF force /\ err = "" THEN [db EXCEPT !.repos = @ \ {repo}]
                                   ELSE db
     /\ proceed(i, IF force \/ err # "" THEN Return("DeleteRepo", err)
                   ELSE [op |-> "DeleteRepo",
                         pc |-> IF db.repos = {} THEN "delete" ELSE "inspect",
                         repo |-> repo, listed |-> db.repos])
     /\ UNCHANGED <<store, nextID, finishOK, treeCache, subVars>>

\* DeleteRepo without force: ListRepo's InspectRepo of a repo it has read.
\* No repo has provenance, so that none is listed
dbDeleteRepoInspect(i) ==
  LET c == calls[i]
      repo == CHOOSE r \in c.listed : TRUE
  IN /\ c.op = "DeleteRepo" /\ c.pc = "inspect"
     /\ proceed(i, IF inspectRepoErr(repo) # ""
                     THEN Return("DeleteRepo", inspectRepoErr(repo))
                   ELSE IF c.listed = {repo} THEN [c EXCEPT !.pc = "delete"]
                   ELSE [c EXCEPT !.listed = @ \ {repo}])
     /\ UNCHANGED <<store, nextID, finishOK, db, treeCache, subVars>>

\* DeleteRepo's Delete of the row of the repo
dbDeleteRepoDelete(i) ==
  LET c == calls[i]
      err == IF "Repos" \notin db.tables THEN TableMissing ELSE ""
  IN /\ c.op = "DeleteRepo" /\ c.pc = "delete"
     /\ db' = IF err = "" THEN [db EXCEPT !.repos = @ \ {c.repo}] ELSE db
     /\ proceed(i, Return("DeleteRepo", err))
     /\ UNCHANGED <<store, nextID, finishOK, treeCache, subVars>>

\* The calls that write the tables and the rows of Repos
DBTables(n) ==
  \E i \in 1..n :
    \/ DeleteAll(i)
    \/ RemoveDB(i)
    \/ InitDB(i)
DBRepos(n) ==
  \E i \in 1..n :
    \/ dbCreateRepo(i, CommitRepo)
    \/ dbCreateRepoInsert(i)
    \/ \E force \in BOOLEAN : dbDeleteRepo(i, CommitRepo, force)
    \/ dbDeleteRepoInspect(i)
    \/ dbDeleteRepoDelete(i)

\* StartCommit calls in every slot; the calls that write the tables and the
\* repos in the first slot and FinishCommit calls in the last, so that each
\* of them runs next to StartCommit calls and next to the other
NextClock ==
  \/ DBStartCommit(MaxCalls)
  \/ DBFinishCommit(MaxCalls)
  \/ DBTables(SeqCalls)
  \/ DBRepos(SeqCalls)

SpecClock == InitEngine /\ [][NextClock]_vars

\* No two rows of Commits have the same head
HeadsUnique ==
  \A c, d \in DOMAIN db.commits : c # d => headOfRow(c) # headOfRow(d)

\* C39 as the spec states it: no two rows of Commits ever have the same
\* (branch, clock) head.  A StartCommit call that finds its clock taken
\* inserts no row, goes back to read the head of the branch when it was
\* given no parent, and returns an error when it was given one.  And when a
\* StartCommit call that has reserved its clock returns an error, the clock
\* is no row of Clocks any more.
C39_ClockHeads ==
  [][/\ HeadsUnique'
     /\ \A i \in 1..MaxCalls :
          (/\ calls[i].op = "startCommit"
           /\ calls[i].pc = "clock"
           /\ calls'[i] # calls[i]
           /\ clockConflict(getClockID(FullClockHead(calls[i].fullClock))))
          => /\ db' = db
             /\ IF calls[i].parentID = NoCommit
                  THEN calls'[i].op = "startCommit" /\ calls'[i].pc = "head"
                  ELSE calls'[i].op = "idle" /\ last'.err # ""
     /\ \A i \in 1..MaxCalls :
          (/\ calls[i].op = "startCommit"
           /\ calls[i].pc \in {"commit", "release"}
           /\ calls'[i].op = "idle"
           /\ last'.err # "")
          => getClockID(FullClockHead(calls[i].fullClock)) \notin db.clocks']_vars
====
